---- MODULE Spec2Model ----
(***************************************************************************)
(* rv6 kernel: the virtio block driver (kernel-rs/src/virtio/virtio_disk.rs)*)
(* and the file-system system calls (kernel-rs/src/sysfile.rs).            *)
(*                                                                         *)
(* The driver state (desc, avail, used, free, used_idx, inflight, ops) is  *)
(* guarded by one Sleepablelock.  Kernel threads call rw through read and  *)
(* write; the device consumes the avail ring and fills the used ring; the  *)
(* interrupt handler intr consumes the used ring.  Every step below is one *)
(* statement group of the source, so that the states in which the lock is  *)
(* held (and the driver state is in flux) are part of the model.           *)
(***************************************************************************)
EXTENDS Integers, Sequences, FiniteSets, TLC

\* ---------------------------------------------------------------- bounds
\* Number of kernel threads that issue disk requests.
NThreads == 3
\* Total number of read/write calls issued in one behaviour.
MaxReq == 3
\* Total number of spurious wakeups (e.g. by kill) in one behaviour.
MaxSpurious == 1
\* The values a sector of a block may hold are 0..MaxData.
MaxData == 1
\* Number of threads that call read and write on their blocks.
NData == 2
\* Number of user processes that issue system calls.
NProcs == 2
\* Number of inodes of the file system, the root directory included.
NINODES == 4
\* Size of the kernel's table of file handles (NFILE of param.rs, scaled).
NFILE == 3
\* Slots of a process's descriptor table (NOFILE of param.rs, scaled).
NOFILE == 2
\* Number of system calls in one behaviour: of one process, and of
\* processes running together.
MaxCalls == 4
MaxConc == 3
\* Number of lists and of nodes.
NLists == 2
NNodes == 3
\* Number of elements one iterator yields before it is given up.
MaxYield == 4
\* The payload of a node is one of 0..MaxPayload.
MaxPayload == 1
\* Length of the argument array of sys_exec (MAXARG, 32, scaled).
MAXARG == 3
\* Number of pages of the page allocator.
NPages == 4
\* Number of calls of exec in one behaviour.
MaxExec == 2

\* ------------------------------------------------------ program constants
\* Number of virtio descriptors: NUM of virtio/mod.rs, imported by the
\* driver; 8 as in xv6.  Any value of at least 3 gives the same results.
NUM == 8
\* Block size in bytes: BSIZE of param.rs, imported by the driver.
BSIZE == 1024
\* used_idx, avail.idx and used.id are u16.
U16 == 65536
\* Request types of the legacy block device.
VIRTIO_BLK_T_IN == 0
VIRTIO_BLK_T_OUT == 1
\* size_of::<VirtIoBlockOutHeader>(): u32 + u32 + usize.
HeaderSize == 16
\* Inode types of stat.rs; a free inode has type 0.
T_DIR == 1
T_FILE == 2
T_DEVICE == 3
\* Kinds of file handle.
FD_NONE == 0
FD_PIPE == 1
FD_INODE == 2
FD_DEVICE == 3
\* Number of device major numbers (param.rs).
NDEV == 10
\* The root directory's inode number and the one disk device.
ROOTINO == 1
ROOTDEV == 1

Threads == 1..NThreads
Descs == 0..(NUM - 1)
\* A Buf is identified by the thread that holds its sleep-lock; 0 is null.
NullBuf == 0
\* The value Option::None of alloc.
NoDesc == -1
\* Lock holder values besides the threads.
NoHolder == <<"none", 0>>
IntrHolder == <<"intr", 0>>
Holder(t) == <<"thread", t>>

\* VirtqDescFlags as sets of flag names; FREED is the empty set of bits.
FREED == {}
FlagNEXT == {"NEXT"}
FlagWRITE == {"WRITE"}

VARIABLES
    free,       \* DiskInfo::free
    desc,       \* VirtIoDisk::desc
    avail,      \* VirtIoDisk::avail: [idx, ring]
    used,       \* VirtIoDisk::used: [id, ring]; id is the device's count
    used_idx,   \* DiskInfo::used_idx
    inflight,   \* DiskInfo::inflight: [b, status]
    ops,        \* DiskInfo::ops: [typ, sector]
    bufdisk,    \* Buf::disk of each thread's buffer
    lock,       \* holder of the Sleepablelock of the disk
    pc,         \* position of each thread in read/write/rw
    descs,      \* rw's local `desc`: the descriptor handles a thread owns
    wr,         \* rw's argument `write`
    irq,        \* the device's interrupt line (pending, not acknowledged)
    devAvail,   \* the device's own index into the avail ring
    kicked,     \* the device has been notified and has not drained the ring
    panicked,   \* "none", or the message of the panic that stopped the kernel
    base,       \* the value of the ring indices in the initial state
    nreq,       \* number of rw calls begun
    nPub,       \* number of completions the device published (no wrap)
    nCons,      \* number of completions intr consumed (no wrap)
    nSpur,      \* number of spurious wakeups so far
    bdata,      \* Buf::data of each thread's buffer, one value per sector
    bvalid,     \* Buf::valid of each thread's buffer
    blk,        \* the content of the disk, by sector
    inread,     \* the thread is inside read, at or after its call of rw
    wrote,      \* the data of the last write call of each thread, or NoData
    got,        \* the data of the buffer the last read returned, or NoData
    inode,      \* the inodes: [typ, dev, major, nlink, ents]
    iref,       \* in-core reference count of each inode
    ilock,      \* holder of each inode's sleep-lock, 0 when free
    ftable,     \* the file handles: [ref, typ, ip]
    proc,       \* each process: position, call, locals, cwd, ofile, ...
    syspanic,   \* "none", or the message of a panic of the system-call layer
    ncalls,     \* number of system calls begun
    serial,     \* system calls are issued one at a time and `snap` is kept
    snap,       \* the state before the system call last begun (when serial)
    prev,       \* a link that has succeeded, while its unlink follows
    list_entry, \* the ListEntry of each list (head) and node: [prev, next]
    alive,      \* the lists and nodes that have not been dropped
    cursor,     \* the CursorMut in existence: [head, current]
    iter,       \* the Iter in existence: [head, tail], and what it yielded
    lpanic,     \* "none", or the message of the panic of Node's drop
    how,        \* the last thing done to each node: inserted, or removed how
    lastrm,     \* the last remove_current: the list as it was, the node
    data,       \* Node::data of each node
    lastw,      \* the payload each node was made with or last given
    kmem,       \* the free pages of the page allocator (kalloc, kfree)
    ex          \* sys_exec: its position, locals and the pages it took

\* The variables of the driver and of its interrupt handler and device.
virtio_vars == <<free, desc, avail, used, used_idx, inflight, ops, bufdisk,
                 lock, pc, descs, wr, irq, devAvail, kicked, panicked, base,
                 nreq, nPub, nCons, nSpur>>
\* The variables of the buffers and of the disk's content.
cache_vars == <<bdata, bvalid, blk, inread, wrote, got>>
\* The variables of the system-call layer.
sys_vars == <<inode, iref, ilock, ftable, proc, syspanic, ncalls, serial,
              snap, prev>>

\* The variables of the lists.
list_vars == <<list_entry, alive, cursor, iter, lpanic, how, lastrm, data,
               lastw>>

\* The variables of sys_exec and of the page allocator.
exec_vars == <<kmem, ex>>

vars == <<virtio_vars, cache_vars, sys_vars, list_vars, exec_vars>>

\* ------------------------------------------------------------ zero values
VirtqDescZero == [addr |-> <<"null", 0>>, len |-> 0, flags |-> FREED, next |-> 0]
InflightInfoZero == [b |-> NullBuf, status |-> 0]
\* InflightInfo::new: status is true (1) until the device writes 0.
InflightInfoNew(b) == [b |-> b, status |-> 1]
VirtIoBlockOutHeaderZero == [typ |-> 0, sector |-> 0]
VirtIoBlockOutHeaderNew(write, sector) ==
    [typ |-> IF write THEN VIRTIO_BLK_T_OUT ELSE VIRTIO_BLK_T_IN,
     sector |-> sector]

\* The block a thread's buffer caches.
Blockno(t) == t

\* The content of a block: BSIZE / 512 sector values.
SectorsOf(len) == len \div 512
BlockData == [1..SectorsOf(BSIZE) -> 0..MaxData]
BlockZero == [k \in 1..SectorsOf(BSIZE) |-> 0]
NoData == <<>>
\* The content of a block other than those the threads read and write: no
\* sector of it holds a value that they write.
BlockOther == [k \in 1..SectorsOf(BSIZE) |-> MaxData + 1]
\* The sectors of the disk: those of block 0 and of every thread's block.
Sectors == 0..((NThreads + 1) * SectorsOf(BSIZE) - 1)

\* ------------------------------------------------- descriptor allocator
\* The allocator works on the pair (free, desc); `panic` records a failed
\* assertion or a reached destructor of Descriptor.
DiskState(f, d) == [free |-> f, desc |-> d, panic |-> "none"]

\* alloc that scans the free array from the top.
AllocHighest(f) ==
    IF \E i \in Descs : f[i]
    THEN CHOOSE i \in Descs : f[i] /\ \A j \in Descs : f[j] => j <= i
    ELSE NoDesc

\* VirtIoDisk::alloc: the first free index, or None.
Alloc(f) ==
    IF \E i \in Descs : f[i]
    THEN CHOOSE i \in Descs : f[i] /\ \A j \in Descs : f[j] => i <= j
    ELSE NoDesc

\* free that resets the descriptor and forgets to mark it free.
FreeNoFlag(d, idx) ==
    IF d.panic # "none" THEN d
    ELSE IF d.free[idx] THEN [d EXCEPT !.panic = "Disk::free"]
    ELSE [d EXCEPT !.desc[idx] = VirtqDescZero]

\* VirtIoDisk::free: asserts the descriptor is in use, resets it, marks it
\* free; the handle is consumed (mem::forget).
Free(d, idx) ==
    IF d.panic # "none" THEN d
    ELSE IF d.free[idx] THEN [d EXCEPT !.panic = "Disk::free"]
    ELSE [d EXCEPT !.desc[idx] = VirtqDescZero, !.free[idx] = TRUE]

\* `for desc in descs { free(desc) }`
RECURSIVE FreeEach(_, _)
FreeEach(d, s) ==
    IF s = <<>> THEN d ELSE FreeEach(Free(d, Head(s)), Tail(s))

\* ------------------------------------------------------- wait channels
\* WaitChannel::wakeup on the disk's channel (guard.wakeup()): every thread
\* asleep there becomes runnable; it still has to take the lock again.
WakeupDisk(p) ==
    [u \in Threads |-> IF p[u] = "sleep_alloc" THEN "woken_alloc" ELSE p[u]]

\* WaitChannel::wakeup on the channel of buffer b.
WakeupBuf(p, b) ==
    [u \in Threads |->
        IF u = b /\ p[u] = "sleep_buf" THEN "woken_buf" ELSE p[u]]

\* How a byte written by the device reads as the Rust `bool` status: 0 is
\* false, 1 is true, any other byte is not a valid bool, and the test
\* `!status` may come out either way.
ReadBool(byte) ==
    IF byte = 0 THEN {FALSE} ELSE IF byte = 1 THEN {TRUE} ELSE {TRUE, FALSE}

\* ---------------------------------------------- system calls: the state
Procs == 1..NProcs
Inums == 1..NINODES
Files == 1..NFILE
Fds == 0..(NOFILE - 1)
NullInode == 0
NullFile == 0

\* Path components and the paths of the calls, relative to the cwd.  BadStr
\* is a string argument that argstr cannot fetch.
Names == {"a", "b"}
Dots == {".", ".."}
Comps == Names \cup Dots
Paths == {<<c>> : c \in Comps} \cup {<<"a", "b">>}
BadStr == <<>>
\* The modes of open, as sets of flags; O_RDONLY is the empty set.
O_RDONLY == {}
OModes == {O_RDONLY, {"O_RDWR"}, {"O_CREATE", "O_RDWR"}}
\* The flags FcntlFlags defines, and the modes one process alone passes as
\* well: write-only, and a bit that is no flag.
FcntlFlags == {"O_WRONLY", "O_RDWR", "O_CREATE", "O_TRUNC"}
OModesMore == {{"O_WRONLY"}, {"O_OTHER"}}
\* The major numbers given to mknod: a valid one and the first invalid one.
Majors == {0, NDEV}

\* A directory entry; inum 0 is a free slot.
Dirent(name, inum) == [name |-> name, inum |-> inum]
DirentZero == Dirent("", 0)
\* A free inode, and the root directory of an empty file system.
InodeZero == [typ |-> 0, dev |-> ROOTDEV, major |-> 0, nlink |-> 0, ents |-> <<>>]
InodeRoot ==
    [typ |-> T_DIR, dev |-> ROOTDEV, major |-> 0, nlink |-> 1,
     ents |-> <<Dirent(".", ROOTINO), Dirent("..", ROOTINO)>>]
FileZero == [ref |-> 0, typ |-> FD_NONE, ip |-> NullInode]

\* A system call and its arguments.
Call(op, path, new, omode, major, fd) ==
    [op |-> op, path |-> path, new |-> new, omode |-> omode, major |-> major,
     fd |-> fd]
NoCall == Call("none", BadStr, BadStr, O_RDONLY, 0, 0)
NoHeld == [i \in Inums |-> 0]
\* A process outside any system call, with cwd the root directory.
ProcZero ==
    [pc |-> "idle", call |-> NoCall, ret |-> 0, ip |-> NullInode,
     dp |-> NullInode, off |-> 0, f |-> NullFile, cwd |-> ROOTINO,
     ofile |-> [fd \in Fds |-> NullFile], intx |-> FALSE, nbegin |-> 0,
     nend |-> 0, held |-> NoHeld]
NoSnap == [p |-> 0]
NoPrev == [p |-> 0]

\* The system-call layer after boot: an empty file system, no open file.
SysInit(s) ==
    /\ inode = [i \in Inums |-> IF i = ROOTINO THEN InodeRoot ELSE InodeZero]
    /\ iref = [i \in Inums |-> IF i = ROOTINO THEN NProcs ELSE 0]
    /\ ilock = [i \in Inums |-> 0]
    /\ ftable = [f \in Files |-> FileZero]
    /\ proc = [p \in Procs |-> ProcZero]
    /\ syspanic = "none"
    /\ ncalls = 0
    /\ serial = s
    /\ snap = NoSnap
    /\ prev = NoPrev

\* ------------------------------------------------------------------ Init
\* The driver with all descriptors free and the ring indices at b; the
\* buffers hold no valid data and the disk is blank.
DiskInit(b) ==
    /\ free = [i \in Descs |-> TRUE]
    /\ desc = [i \in Descs |-> VirtqDescZero]
    /\ base = b
    /\ avail = [idx |-> base, ring |-> [i \in Descs |-> 0]]
    /\ used = [id |-> base, ring |-> [i \in Descs |-> 0]]
    /\ used_idx = base
    /\ inflight = [i \in Descs |-> InflightInfoZero]
    /\ ops = [i \in Descs |-> VirtIoBlockOutHeaderZero]
    /\ bufdisk = [t \in Threads |-> FALSE]
    /\ lock = NoHolder
    /\ pc = [t \in Threads |-> "idle"]
    /\ descs = [t \in Threads |-> <<>>]
    /\ wr = [t \in Threads |-> FALSE]
    /\ irq = FALSE
    /\ devAvail = base
    /\ kicked = FALSE
    /\ panicked = "none"
    /\ nreq = 0
    /\ nPub = 0
    /\ nCons = 0
    /\ nSpur = 0
    /\ bdata = [t \in Threads |-> BlockZero]
    /\ bvalid = [t \in Threads |-> FALSE]
    /\ blk = [s \in Sectors |-> 0]
    /\ inread = [t \in Threads |-> FALSE]
    /\ wrote = [t \in Threads |-> NoData]
    /\ got = [t \in Threads |-> NoData]

\* ------------------------------------------------------------------ lists
\* A ListEntry is named by its address: 1..NLists are the heads of the
\* lists, the others the list_entry fields of the nodes; 0 is the null
\* pointer.
Lists == 1..NLists
Nodes == (NLists + 1)..(NLists + NNodes)
Entries == Lists \cup Nodes
NullEntry == 0
\* Node::LIST_ENTRY_OFFSET and Node::from_list_entry.
LIST_ENTRY_OFFSET == 0
FromListEntry(e) == e - LIST_ENTRY_OFFSET
\* ListEntry::new and ListEntry::init of the entry at address e.
ListEntryNew == [prev |-> NullEntry, next |-> NullEntry]
ListEntryInit(E, e) ==
    IF E[e].next = NullEntry THEN [E EXCEPT ![e] = [prev |-> e, next |-> e]]
    ELSE E
RECURSIVE InitAll(_, _)
InitAll(E, es) ==
    IF es = {} THEN E
    ELSE LET e == CHOOSE x \in es : TRUE
         IN InitAll(ListEntryInit(E, e), es \ {e})
NoCursor == [head |-> NullEntry, current |-> NullEntry]
NoIter == [list |-> NullEntry]
NoRm == [list |-> NullEntry]
NodeDropMsg == "Node dropped while its inside a list"

\* Lists and nodes after new and init, as in test(): nothing inserted.
ListInit ==
    /\ list_entry = InitAll([e \in Entries |-> ListEntryNew], Entries)
    /\ alive = Entries
    /\ cursor = NoCursor
    /\ iter = NoIter
    /\ lpanic = "none"
    /\ how = [n \in Nodes |-> "init"]
    /\ lastrm = NoRm
    /\ data = [n \in Nodes |-> 0]
    /\ lastw = [n \in Nodes |-> 0]

\* sys_exec outside any call: argv is all null, no page taken.
Pages == 1..NPages
NullPage == 0
ExecZero ==
    [pc |-> "idle", i |-> 0, argv |-> [k \in 0..(MAXARG - 1) |-> NullPage],
     scratch |-> {}, kfreed |-> [pg \in Pages |-> 0], loads |-> 0,
     why |-> "none", ret |-> 0, n |-> 0]
ExecInit ==
    /\ kmem = Pages
    /\ ex = ExecZero

\* The kernel with the driver's ring indices at b and no system call begun.
InitAt(b) == DiskInit(b) /\ SysInit(FALSE) /\ ListInit /\ ExecInit

\* The driver after construction (VirtIoDisk::zero).
Init == InitAt(0)

\* The idle driver after 2^16 - 1 requests served one at a time (reads of
\* block 0 through head 0): the u16 indices are about to wrap.
InitWrap == InitAt(U16 - 1)

ring_vars == <<avail, used, used_idx, devAvail, irq, kicked>>
ghost_vars == <<base, nPub, nCons, nSpur>>

\* ------------------------------------------------------------ rw, by step
\* `VirtIoDisk::rw(&mut self.lock(), buf, write)`: take the disk lock and
\* enter rw.
RwCall(t, write) ==
    /\ panicked = "none"
    /\ pc[t] = "idle"
    /\ lock = NoHolder
    /\ nreq < MaxReq
    /\ lock' = Holder(t)
    /\ wr' = [wr EXCEPT ![t] = write]
    /\ pc' = [pc EXCEPT ![t] = "alloc"]
    /\ nreq' = nreq + 1
    /\ UNCHANGED <<free, desc, inflight, ops, bufdisk, descs, panicked>>
    /\ UNCHANGED <<ring_vars, ghost_vars>>

\* Sleepablelock::read / write seen from the driver: a call of rw on a
\* buffer whose content plays no part.
RwEnter(t, write) ==
    /\ RwCall(t, write)
    /\ UNCHANGED <<cache_vars, sys_vars, list_vars, exec_vars>>

\* rw whose allocation loop gives up when alloc returns None: it frees what
\* it took and returns to the caller instead of sleeping.
RwAllocGiveUp(t) ==
    /\ panicked = "none"
    /\ pc[t] = "alloc"
    /\ lock = Holder(t)
    /\ LET i == Alloc(free) IN
       IF i # NoDesc
       THEN /\ free' = [free EXCEPT ![i] = FALSE]
            /\ descs' = [descs EXCEPT ![t] = Append(descs[t], i)]
            /\ pc' = [pc EXCEPT ![t] = IF Len(descs[t]) = 2 THEN "format"
                                       ELSE "alloc"]
            /\ UNCHANGED <<desc, lock, panicked, wr>>
       ELSE \E d \in {FreeEach(DiskState(free, desc), descs[t])} :
            /\ free' = d.free
            /\ desc' = d.desc
            /\ descs' = [descs EXCEPT ![t] = <<>>]
            /\ lock' = NoHolder
            /\ pc' = [pc EXCEPT ![t] = "idle"]
            /\ wr' = [wr EXCEPT ![t] = FALSE]
            /\ UNCHANGED panicked
    /\ UNCHANGED <<inflight, ops, bufdisk, nreq>>
    /\ UNCHANGED <<ring_vars, ghost_vars>>
    /\ UNCHANGED <<cache_vars, sys_vars, list_vars, exec_vars>>

\* alloc_three_descriptors whose failure path drops the handles it took
\* without passing them to free.
RwAllocLeak(t) ==
    /\ panicked = "none"
    /\ pc[t] = "alloc"
    /\ lock = Holder(t)
    /\ LET i == Alloc(free) IN
       IF i # NoDesc
       THEN /\ free' = [free EXCEPT ![i] = FALSE]
            /\ descs' = [descs EXCEPT ![t] = Append(descs[t], i)]
            /\ pc' = [pc EXCEPT ![t] = IF Len(descs[t]) = 2 THEN "format"
                                       ELSE "alloc"]
            /\ UNCHANGED <<desc, lock, panicked>>
       ELSE /\ descs' = [descs EXCEPT ![t] = <<>>]
            /\ lock' = NoHolder
            /\ pc' = [pc EXCEPT ![t] = "sleep_alloc"]
            /\ UNCHANGED <<free, desc, panicked>>
    /\ UNCHANGED <<inflight, ops, bufdisk, wr, nreq>>
    /\ UNCHANGED <<ring_vars, ghost_vars>>
    /\ UNCHANGED <<cache_vars, sys_vars, list_vars, exec_vars>>

\* One round of the loop `for _ in 0..3` of alloc_three_descriptors, called
\* from `loop { match alloc_three_descriptors() ... }` of rw.  alloc gives a
\* handle, which is pushed, and the third one ends the loop with Some; or
\* alloc gives None, the handles taken so far are freed, the result is None
\* and rw calls guard.sleep() on the disk's channel.
RwAlloc(t) ==
    /\ panicked = "none"
    /\ pc[t] = "alloc"
    /\ lock = Holder(t)
    /\ LET i == Alloc(free) IN
       IF i # NoDesc
       THEN /\ free' = [free EXCEPT ![i] = FALSE]
            /\ descs' = [descs EXCEPT ![t] = Append(descs[t], i)]
            /\ pc' = [pc EXCEPT ![t] = IF Len(descs[t]) = 2 THEN "format"
                                       ELSE "alloc"]
            /\ UNCHANGED <<desc, lock, panicked>>
       ELSE \E d \in {FreeEach(DiskState(free, desc), descs[t])} :
            /\ free' = d.free
            /\ desc' = d.desc
            /\ IF d.panic # "none"
               THEN /\ panicked' = d.panic
                    /\ UNCHANGED <<pc, descs, lock>>
               ELSE /\ descs' = [descs EXCEPT ![t] = <<>>]
                    /\ lock' = NoHolder
                    /\ pc' = [pc EXCEPT ![t] = "sleep_alloc"]
                    /\ UNCHANGED panicked
    /\ UNCHANGED <<inflight, ops, bufdisk, wr, nreq>>
    /\ UNCHANGED <<ring_vars, ghost_vars>>
    /\ UNCHANGED <<cache_vars, sys_vars, list_vars, exec_vars>>

\* rw that links the data descriptor to itself instead of to the status
\* descriptor.
RwFormatSelfNext(t) ==
    /\ panicked = "none"
    /\ pc[t] = "format"
    /\ lock = Holder(t)
    /\ LET d0 == descs[t][1]
           d1 == descs[t][2]
           d2 == descs[t][3]
           sector == Blockno(t) * (BSIZE \div 512)
       IN
       /\ ops' = [ops EXCEPT ![d0] = VirtIoBlockOutHeaderNew(wr[t], sector)]
       /\ desc' = [desc EXCEPT
              ![d0] = [addr |-> <<"ops", d0>>, len |-> HeaderSize,
                       flags |-> FlagNEXT, next |-> d1],
              ![d1] = [addr |-> <<"data", t>>, len |-> BSIZE,
                       flags |-> IF wr[t] THEN FlagNEXT
                                 ELSE FlagNEXT \cup FlagWRITE,
                       next |-> d1],
              ![d2] = [addr |-> <<"status", d0>>, len |-> 1,
                       flags |-> FlagWRITE, next |-> 0]]
       /\ bufdisk' = [bufdisk EXCEPT ![t] = TRUE]
       /\ inflight' = [inflight EXCEPT ![d0] = InflightInfoNew(t)]
    /\ pc' = [pc EXCEPT ![t] = "ring"]
    /\ UNCHANGED <<free, lock, descs, wr, panicked, nreq>>
    /\ UNCHANGED <<ring_vars, ghost_vars>>
    /\ UNCHANGED <<cache_vars, sys_vars, list_vars, exec_vars>>

\* Format the three descriptors, mark the buffer, record it in inflight.
RwFormat(t) ==
    /\ panicked = "none"
    /\ pc[t] = "format"
    /\ lock = Holder(t)
    /\ LET d0 == descs[t][1]
           d1 == descs[t][2]
           d2 == descs[t][3]
           sector == Blockno(t) * (BSIZE \div 512)
       IN
       /\ ops' = [ops EXCEPT ![d0] = VirtIoBlockOutHeaderNew(wr[t], sector)]
       /\ desc' = [desc EXCEPT
              ![d0] = [addr |-> <<"ops", d0>>, len |-> HeaderSize,
                       flags |-> FlagNEXT, next |-> d1],
              ![d1] = [addr |-> <<"data", t>>, len |-> BSIZE,
                       flags |-> IF wr[t] THEN FlagNEXT
                                 ELSE FlagNEXT \cup FlagWRITE,
                       next |-> d2],
              ![d2] = [addr |-> <<"status", d0>>, len |-> 1,
                       flags |-> FlagWRITE, next |-> 0]]
       /\ bufdisk' = [bufdisk EXCEPT ![t] = TRUE]
       /\ inflight' = [inflight EXCEPT ![d0] = InflightInfoNew(t)]
    /\ pc' = [pc EXCEPT ![t] = "ring"]
    /\ UNCHANGED <<free, lock, descs, wr, panicked, nreq>>
    /\ UNCHANGED <<ring_vars, ghost_vars>>
    /\ UNCHANGED <<cache_vars, sys_vars, list_vars, exec_vars>>

\* rw that writes the head into the slot after the one avail.idx names.
RwRingNextSlot(t) ==
    /\ panicked = "none"
    /\ pc[t] = "ring"
    /\ lock = Holder(t)
    /\ avail' = [avail EXCEPT !.ring[(avail.idx + 1) % NUM] = descs[t][1]]
    /\ pc' = [pc EXCEPT ![t] = "publish"]
    /\ UNCHANGED <<free, desc, inflight, ops, bufdisk, lock, descs, wr,
                   panicked, nreq, used, used_idx, devAvail, irq, kicked>>
    /\ UNCHANGED ghost_vars
    /\ UNCHANGED <<cache_vars, sys_vars, list_vars, exec_vars>>

\* avail.ring[avail.idx % NUM] = head
RwRing(t) ==
    /\ panicked = "none"
    /\ pc[t] = "ring"
    /\ lock = Holder(t)
    /\ avail' = [avail EXCEPT !.ring[avail.idx % NUM] = descs[t][1]]
    /\ pc' = [pc EXCEPT ![t] = "publish"]
    /\ UNCHANGED <<free, desc, inflight, ops, bufdisk, lock, descs, wr,
                   panicked, nreq, used, used_idx, devAvail, irq, kicked>>
    /\ UNCHANGED ghost_vars
    /\ UNCHANGED <<cache_vars, sys_vars, list_vars, exec_vars>>

\* avail.idx += 1
RwPublish(t) ==
    /\ panicked = "none"
    /\ pc[t] = "publish"
    /\ lock = Holder(t)
    /\ avail' = [avail EXCEPT !.idx = (avail.idx + 1) % U16]
    /\ pc' = [pc EXCEPT ![t] = "notify"]
    /\ UNCHANGED <<free, desc, inflight, ops, bufdisk, lock, descs, wr,
                   panicked, nreq, used, used_idx, devAvail, irq, kicked>>
    /\ UNCHANGED ghost_vars
    /\ UNCHANGED <<cache_vars, sys_vars, list_vars, exec_vars>>

\* MmioRegs::notify_queue(0)
RwNotify(t) ==
    /\ panicked = "none"
    /\ pc[t] = "notify"
    /\ lock = Holder(t)
    /\ kicked' = TRUE
    /\ pc' = [pc EXCEPT ![t] = "wait"]
    /\ UNCHANGED <<free, desc, inflight, ops, bufdisk, lock, descs, wr,
                   panicked, nreq, avail, used, used_idx, devAvail, irq>>
    /\ UNCHANGED ghost_vars
    /\ UNCHANGED <<cache_vars, sys_vars, list_vars, exec_vars>>

\* One test of `while b.disk { waitchannel.sleep(guard) }`: sleep on the
\* buffer's channel, giving up the lock, or leave the loop.
RwWait(t) ==
    /\ panicked = "none"
    /\ pc[t] = "wait"
    /\ lock = Holder(t)
    /\ IF bufdisk[t]
       THEN /\ lock' = NoHolder
            /\ pc' = [pc EXCEPT ![t] = "sleep_buf"]
       ELSE /\ pc' = [pc EXCEPT ![t] = "clear"]
            /\ UNCHANGED lock
    /\ UNCHANGED <<free, desc, inflight, ops, bufdisk, descs, wr, panicked,
                   nreq>>
    /\ UNCHANGED <<ring_vars, ghost_vars>>
    /\ UNCHANGED <<cache_vars, sys_vars, list_vars, exec_vars>>

\* rw that goes on to free the descriptors without clearing inflight.
RwClearSkip(t) ==
    /\ panicked = "none"
    /\ pc[t] = "clear"
    /\ lock = Holder(t)
    /\ pc' = [pc EXCEPT ![t] = "free"]
    /\ UNCHANGED <<free, desc, inflight, ops, bufdisk, lock, descs, wr,
                   panicked, nreq>>
    /\ UNCHANGED <<ring_vars, ghost_vars>>
    /\ UNCHANGED <<cache_vars, sys_vars, list_vars, exec_vars>>

\* clear_inflight(desc[0].idx)
RwClear(t) ==
    /\ panicked = "none"
    /\ pc[t] = "clear"
    /\ lock = Holder(t)
    /\ inflight' = [inflight EXCEPT ![descs[t][1]] = InflightInfoZero]
    /\ pc' = [pc EXCEPT ![t] = "free"]
    /\ UNCHANGED <<free, desc, ops, bufdisk, lock, descs, wr, panicked, nreq>>
    /\ UNCHANGED <<ring_vars, ghost_vars>>
    /\ UNCHANGED <<cache_vars, sys_vars, list_vars, exec_vars>>

\* rw that returns without guard.wakeup().
RwFinishNoWakeup(t) ==
    /\ panicked = "none"
    /\ pc[t] = "free"
    /\ lock = Holder(t)
    /\ \E d \in {FreeEach(DiskState(free, desc), descs[t])} :
       /\ free' = d.free
       /\ desc' = d.desc
       /\ IF d.panic # "none"
          THEN /\ panicked' = d.panic
               /\ UNCHANGED <<pc, descs, lock, wr>>
          ELSE /\ descs' = [descs EXCEPT ![t] = <<>>]
               /\ pc' = [pc EXCEPT ![t] = "idle"]
               /\ wr' = [wr EXCEPT ![t] = FALSE]
               /\ lock' = NoHolder
               /\ UNCHANGED panicked
    /\ UNCHANGED <<inflight, ops, bufdisk, nreq>>
    /\ UNCHANGED <<ring_vars, ghost_vars>>
    /\ UNCHANGED <<cache_vars, sys_vars, list_vars, exec_vars>>

\* Free the three descriptors, guard.wakeup(), return; the caller's guard is
\* dropped at the end of its statement.
RwFinish(t) ==
    /\ panicked = "none"
    /\ pc[t] = "free"
    /\ lock = Holder(t)
    /\ \E d \in {FreeEach(DiskState(free, desc), descs[t])} :
       /\ free' = d.free
       /\ desc' = d.desc
       /\ IF d.panic # "none"
          THEN /\ panicked' = d.panic
               /\ UNCHANGED <<pc, descs, lock, wr>>
          ELSE /\ descs' = [descs EXCEPT ![t] = <<>>]
               /\ pc' = [WakeupDisk(pc) EXCEPT ![t] = "idle"]
               /\ wr' = [wr EXCEPT ![t] = FALSE]
               /\ lock' = NoHolder
               /\ UNCHANGED panicked
    /\ UNCHANGED <<inflight, ops, bufdisk, nreq>>
    /\ UNCHANGED <<ring_vars, ghost_vars>>
    /\ UNCHANGED <<cache_vars, sys_vars, list_vars, exec_vars>>

\* A woken thread returns from sleep once it has the lock again.
Reacquire(t) ==
    /\ panicked = "none"
    /\ pc[t] \in {"woken_alloc", "woken_buf"}
    /\ lock = NoHolder
    /\ lock' = Holder(t)
    /\ pc' = [pc EXCEPT ![t] = IF pc[t] = "woken_alloc" THEN "alloc"
                                ELSE "wait"]
    /\ UNCHANGED <<free, desc, inflight, ops, bufdisk, descs, wr, panicked,
                   nreq>>
    /\ UNCHANGED <<ring_vars, ghost_vars>>
    /\ UNCHANGED <<cache_vars, sys_vars, list_vars, exec_vars>>

\* A sleeping thread is made runnable though nobody woke its channel.
SpuriousWakeup(t) ==
    /\ panicked = "none"
    /\ pc[t] \in {"sleep_alloc", "sleep_buf"}
    /\ nSpur < MaxSpurious
    /\ nSpur' = nSpur + 1
    /\ pc' = [pc EXCEPT ![t] = IF pc[t] = "sleep_alloc" THEN "woken_alloc"
                                ELSE "woken_buf"]
    /\ UNCHANGED <<free, desc, inflight, ops, bufdisk, lock, descs, wr,
                   panicked, nreq, base, nPub, nCons>>
    /\ UNCHANGED ring_vars
    /\ UNCHANGED <<cache_vars, sys_vars, list_vars, exec_vars>>

\* ----------------------------------------------------------------- intr
\* The interrupt dispatcher takes the disk lock and calls intr, which first
\* acknowledges the interrupt (intr_ack_all).
IntrEnter ==
    /\ panicked = "none"
    /\ irq
    /\ lock = NoHolder
    /\ lock' = IntrHolder
    /\ irq' = FALSE
    /\ UNCHANGED <<free, desc, inflight, ops, bufdisk, pc, descs, wr,
                   panicked, nreq, avail, used, used_idx, devAvail, kicked>>
    /\ UNCHANGED ghost_vars
    /\ UNCHANGED <<cache_vars, sys_vars, list_vars, exec_vars>>

\* intr that clears the disk flag and does not wake the buffer's channel.
IntrStepNoWakeup ==
    /\ panicked = "none"
    /\ lock = IntrHolder
    /\ used_idx # used.id
    /\ LET id == used.ring[used_idx % NUM] IN
       \E failed \in ReadBool(inflight[id].status) :
          IF failed
          THEN /\ panicked' = "Disk::intr status"
               /\ UNCHANGED <<bufdisk, pc, used_idx, nCons>>
          ELSE IF inflight[id].b = NullBuf
          THEN /\ panicked' = "Disk::intr"
               /\ UNCHANGED <<bufdisk, pc, used_idx, nCons>>
          ELSE /\ bufdisk' = [bufdisk EXCEPT ![inflight[id].b] = FALSE]
               /\ used_idx' = (used_idx + 1) % U16
               /\ nCons' = nCons + 1
               /\ UNCHANGED <<pc, panicked>>
    /\ UNCHANGED <<free, desc, inflight, ops, lock, descs, wr, nreq, avail,
                   used, devAvail, irq, kicked, base, nPub, nSpur>>
    /\ UNCHANGED <<cache_vars, sys_vars, list_vars, exec_vars>>

\* intr that does not advance used_idx.
IntrStepNoAdvance ==
    /\ panicked = "none"
    /\ lock = IntrHolder
    /\ used_idx # used.id
    /\ LET id == used.ring[used_idx % NUM] IN
       \E failed \in ReadBool(inflight[id].status) :
          IF failed
          THEN /\ panicked' = "Disk::intr status"
               /\ UNCHANGED <<bufdisk, pc>>
          ELSE IF inflight[id].b = NullBuf
          THEN /\ panicked' = "Disk::intr"
               /\ UNCHANGED <<bufdisk, pc>>
          ELSE /\ bufdisk' = [bufdisk EXCEPT ![inflight[id].b] = FALSE]
               /\ pc' = WakeupBuf(pc, inflight[id].b)
               /\ UNCHANGED panicked
    /\ UNCHANGED <<free, desc, inflight, ops, lock, descs, wr, nreq, avail,
                   used, used_idx, devAvail, irq, kicked, base, nPub, nCons,
                   nSpur>>
    /\ UNCHANGED <<cache_vars, sys_vars, list_vars, exec_vars>>

\* intr whose loop does not compare used_idx with the device's count.
IntrStepNoGuard ==
    /\ panicked = "none"
    /\ lock = IntrHolder
    /\ LET id == used.ring[used_idx % NUM] IN
       \E failed \in ReadBool(inflight[id].status) :
          IF failed
          THEN /\ panicked' = "Disk::intr status"
               /\ UNCHANGED <<bufdisk, pc, used_idx, nCons>>
          ELSE IF inflight[id].b = NullBuf
          THEN /\ panicked' = "Disk::intr"
               /\ UNCHANGED <<bufdisk, pc, used_idx, nCons>>
          ELSE /\ bufdisk' = [bufdisk EXCEPT ![inflight[id].b] = FALSE]
               /\ pc' = WakeupBuf(pc, inflight[id].b)
               /\ used_idx' = (used_idx + 1) % U16
               /\ nCons' = nCons + 1
               /\ UNCHANGED panicked
    /\ UNCHANGED <<free, desc, inflight, ops, lock, descs, wr, nreq, avail,
                   used, devAvail, irq, kicked, base, nPub, nSpur>>
    /\ UNCHANGED <<cache_vars, sys_vars, list_vars, exec_vars>>

\* intr that reads the used-ring slot after the one used_idx names.
IntrStepNextSlot ==
    /\ panicked = "none"
    /\ lock = IntrHolder
    /\ used_idx # used.id
    /\ LET id == used.ring[(used_idx + 1) % NUM] IN
       \E failed \in ReadBool(inflight[id].status) :
          IF failed
          THEN /\ panicked' = "Disk::intr status"
               /\ UNCHANGED <<bufdisk, pc, used_idx, nCons>>
          ELSE IF inflight[id].b = NullBuf
          THEN /\ panicked' = "Disk::intr"
               /\ UNCHANGED <<bufdisk, pc, used_idx, nCons>>
          ELSE /\ bufdisk' = [bufdisk EXCEPT ![inflight[id].b] = FALSE]
               /\ pc' = WakeupBuf(pc, inflight[id].b)
               /\ used_idx' = (used_idx + 1) % U16
               /\ nCons' = nCons + 1
               /\ UNCHANGED panicked
    /\ UNCHANGED <<free, desc, inflight, ops, lock, descs, wr, nreq, avail,
                   used, devAvail, irq, kicked, base, nPub, nSpur>>
    /\ UNCHANGED <<cache_vars, sys_vars, list_vars, exec_vars>>

\* One round of `while used_idx != used.id`.
IntrStep ==
    /\ panicked = "none"
    /\ lock = IntrHolder
    /\ used_idx # used.id
    /\ LET id == used.ring[used_idx % NUM] IN
       \E failed \in ReadBool(inflight[id].status) :
          IF failed
          THEN /\ panicked' = "Disk::intr status"
               /\ UNCHANGED <<bufdisk, pc, used_idx, nCons>>
          ELSE IF inflight[id].b = NullBuf
          THEN /\ panicked' = "Disk::intr"
               /\ UNCHANGED <<bufdisk, pc, used_idx, nCons>>
          ELSE /\ bufdisk' = [bufdisk EXCEPT ![inflight[id].b] = FALSE]
               /\ pc' = WakeupBuf(pc, inflight[id].b)
               /\ used_idx' = (used_idx + 1) % U16
               /\ nCons' = nCons + 1
               /\ UNCHANGED panicked
    /\ UNCHANGED <<free, desc, inflight, ops, lock, descs, wr, nreq, avail,
                   used, devAvail, irq, kicked, base, nPub, nSpur>>
    /\ UNCHANGED <<cache_vars, sys_vars, list_vars, exec_vars>>

\* The loop ends, intr returns and the dispatcher releases the lock.
IntrExit ==
    /\ panicked = "none"
    /\ lock = IntrHolder
    /\ used_idx = used.id
    /\ lock' = NoHolder
    /\ UNCHANGED <<free, desc, inflight, ops, bufdisk, pc, descs, wr,
                   panicked, nreq>>
    /\ UNCHANGED <<ring_vars, ghost_vars>>
    /\ UNCHANGED <<cache_vars, sys_vars, list_vars, exec_vars>>

\* ------------------------------------------------------------ the device
\* The data transfer of a request that ends with status 0: the header at
\* `hdr` names the type and the first sector, the descriptor `dd` the buffer
\* and the length.  An OUT request copies the buffer to the disk; an IN
\* request copies the disk to the buffer, which the descriptor must mark
\* device-writable.
Transfer(status, hdr, dd) ==
    IF status = 0 /\ hdr[1] = "ops" /\ dd.addr[1] = "data"
    THEN LET op == ops[hdr[2]]
             b == dd.addr[2]
             n == SectorsOf(dd.len)
         IN
         IF op.typ = VIRTIO_BLK_T_OUT
         THEN /\ blk' = [s \in Sectors |->
                            IF s >= op.sector /\ s < op.sector + n
                            THEN bdata[b][s - op.sector + 1] ELSE blk[s]]
              /\ UNCHANGED bdata
         ELSE IF "WRITE" \in dd.flags
         THEN /\ bdata' = [bdata EXCEPT
                               ![b] = [k \in 1..n |-> blk[op.sector + k - 1]]]
              /\ UNCHANGED blk
         ELSE UNCHANGED <<bdata, blk>>
    ELSE UNCHANGED <<bdata, blk>>

\* The device takes the next chain head from the avail ring, follows the
\* chain to its status byte, writes the status there, puts the head in the
\* used ring, counts it and raises the interrupt.
DevProcess(status) ==
    /\ panicked = "none"
    /\ kicked
    /\ devAvail # avail.idx
    /\ LET head == avail.ring[devAvail % NUM]
           d1 == desc[head].next
           d2 == desc[d1].next
           target == desc[d2].addr
       IN
       /\ inflight' = IF target[1] = "status"
                      THEN [inflight EXCEPT ![target[2]].status = status]
                      ELSE inflight
       /\ used' = [used EXCEPT !.ring[used.id % NUM] = head,
                               !.id = (used.id + 1) % U16]
       /\ Transfer(status, desc[head].addr, desc[d1])
    /\ devAvail' = (devAvail + 1) % U16
    /\ kicked' = (devAvail' # avail.idx)
    /\ irq' = TRUE
    /\ nPub' = nPub + 1
    /\ UNCHANGED <<free, desc, ops, bufdisk, lock, pc, descs, wr, panicked,
                   nreq, avail, used_idx, base, nCons, nSpur>>
    /\ UNCHANGED <<bvalid, inread, wrote, got, sys_vars, list_vars, exec_vars>>

\* ------------------------------------------------------- specifications
ThreadStep(t) ==
    \/ RwAlloc(t)
    \/ RwFormat(t)
    \/ RwRing(t)
    \/ RwPublish(t)
    \/ RwNotify(t)
    \/ RwWait(t)
    \/ RwClear(t)
    \/ RwFinish(t)
    \/ Reacquire(t)

Driver ==
    \/ \E t \in Threads : \E write \in BOOLEAN : RwEnter(t, write)
    \/ \E t \in Threads : ThreadStep(t)
    \/ \E t \in Threads : SpuriousWakeup(t)
    \/ IntrEnter
    \/ IntrStep
    \/ IntrExit

\* A device that reports success for every request.
Next == Driver \/ DevProcess(0)

Spec == Init /\ [][Next]_vars

\* The same driver started just before the wrap of the ring indices.
SpecWrap == InitWrap /\ [][Next]_vars

\* The status values of the legacy block device: OK, IOERR, UNSUPP.
DevStatus == {0, 1, 2}

\* A device that may report any status.
NextFaulty == Driver \/ \E s \in DevStatus : DevProcess(s)

SpecFaulty == Init /\ [][NextFaulty]_vars

\* Every step but the start of a new call and a spurious wakeup.
Progress ==
    \/ \E t \in Threads : ThreadStep(t)
    \/ IntrEnter
    \/ IntrStep
    \/ IntrExit
    \/ DevProcess(0)

\* Scheduling: the kernel and the device do not stop while a thread inside
\* rw, the interrupt handler or the device can take a step.
Fairness == WF_vars(Progress)

\* The driver serving writes, under fair scheduling and a device that
\* completes every request with success.

NextWrites ==
    \/ \E t \in Threads : RwEnter(t, TRUE)
    \/ \E t \in Threads : ThreadStep(t)
    \/ \E t \in Threads : SpuriousWakeup(t)
    \/ IntrEnter
    \/ IntrStep
    \/ IntrExit
    \/ DevProcess(0)

FairSpec == Init /\ [][NextWrites]_vars /\ Fairness

\* ------------------------------------------------- read and write, by step
\* Sleepablelock::write: the buffer arrives holding the data v; rw(write).
Write(t, v) ==
    /\ ~inread[t]
    /\ RwCall(t, TRUE)
    /\ bdata' = [bdata EXCEPT ![t] = v]
    /\ wrote' = [wrote EXCEPT ![t] = v]
    /\ got' = [got EXCEPT ![t] = NoData]
    /\ UNCHANGED <<bvalid, blk, inread, sys_vars, list_vars, exec_vars>>

\* read that takes the buffer as it finds it, valid or not.
ReadNoRw(t) ==
    /\ panicked = "none"
    /\ pc[t] = "idle"
    /\ ~inread[t]
    /\ got' = [got EXCEPT ![t] = bdata[t]]
    /\ bvalid' = [bvalid EXCEPT ![t] = TRUE]
    /\ UNCHANGED <<virtio_vars, bdata, blk, inread, wrote, sys_vars, list_vars, exec_vars>>

\* Sleepablelock::read up to its call of rw: get_buf(dev, blockno).lock(),
\* then either the buffer is valid and is returned as it is, or rw(read) is
\* called on it.
Read(t) ==
    /\ panicked = "none"
    /\ pc[t] = "idle"
    /\ ~inread[t]
    /\ IF bvalid[t]
       THEN /\ got' = [got EXCEPT ![t] = bdata[t]]
            /\ UNCHANGED <<virtio_vars, inread>>
       ELSE /\ RwCall(t, FALSE)
            /\ inread' = [inread EXCEPT ![t] = TRUE]
            /\ got' = [got EXCEPT ![t] = NoData]
    /\ UNCHANGED <<bdata, bvalid, blk, wrote, sys_vars, list_vars, exec_vars>>

\* Sleepablelock::read after rw has returned: valid = true, return the
\* buffer.
ReadReturn(t) ==
    /\ panicked = "none"
    /\ pc[t] = "idle"
    /\ inread[t]
    /\ bvalid' = [bvalid EXCEPT ![t] = TRUE]
    /\ got' = [got EXCEPT ![t] = bdata[t]]
    /\ inread' = [inread EXCEPT ![t] = FALSE]
    /\ UNCHANGED <<virtio_vars, bdata, blk, wrote, sys_vars, list_vars, exec_vars>>

\* The buffer cache recycles the released buffer of block t for another
\* block and back: what get_buf returns next is invalid and holds the other
\* block's data.
Evict(t) ==
    /\ panicked = "none"
    /\ pc[t] = "idle"
    /\ ~inread[t]
    /\ bvalid[t] \/ bdata[t] # BlockOther
    /\ bvalid' = [bvalid EXCEPT ![t] = FALSE]
    /\ bdata' = [bdata EXCEPT ![t] = BlockOther]
    /\ got' = [got EXCEPT ![t] = NoData]
    /\ UNCHANGED <<virtio_vars, blk, inread, wrote, sys_vars, list_vars, exec_vars>>

\* The threads that call read and write.
DataThreads == 1..NData

\* The driver under callers of read and write, with a buffer cache that may
\* recycle any released buffer.
NextData ==
    \/ \E t \in DataThreads : \E v \in BlockData : Write(t, v)
    \/ \E t \in DataThreads : Read(t)
    \/ \E t \in DataThreads : ReadReturn(t)
    \/ \E t \in DataThreads : Evict(t)
    \/ \E t \in Threads : ThreadStep(t)
    \/ IntrEnter
    \/ IntrStep
    \/ IntrExit
    \/ DevProcess(0)

SpecData == Init /\ [][NextData]_vars

\* ------------------------------------------- system calls: kernel helpers
\* The kernel state a step of process p works on: the tables and p's own
\* record.  The operators below are the kernel functions sysfile.rs calls,
\* as functions from state to state.
KState(p) ==
    [me |-> p, inode |-> inode, iref |-> iref, ilock |-> ilock,
     ftable |-> ftable, pr |-> proc[p], panic |-> syspanic]

Panic(S, msg) == IF S.panic = "none" THEN [S EXCEPT !.panic = msg] ELSE S

\* Inode::lock and Inode::unlock (the caller has waited for the lock).
ILock(S, i) == [S EXCEPT !.ilock[i] = S.me]
IUnlock(S, i) ==
    IF S.ilock[i] # S.me THEN Panic(S, "iunlock")
    ELSE [S EXCEPT !.ilock[i] = 0]

\* One in-core reference is dropped; the last one of an inode with nlink 0
\* reclaims the inode.
Release(S, i) ==
    IF S.iref[i] = 1 /\ S.inode[i].nlink = 0
    THEN [S EXCEPT !.inode[i] = InodeZero, !.iref[i] = 0]
    ELSE [S EXCEPT !.iref[i] = @ - 1]

\* A reference obtained by this call (namei, nameiparent, dirlookup, alloc).
IGet(S, i) == [S EXCEPT !.iref[i] = @ + 1, !.pr.held[i] = @ + 1]
\* Inode::put and Inode::unlockput on a reference of this call.
IPut(S, i) == [Release(S, i) EXCEPT !.pr.held[i] = @ - 1]
IUnlockPut(S, i) == IPut(IUnlock(S, i), i)
\* The reference passes from the call to a file handle or to the cwd.
Disown(S, i) == [S EXCEPT !.pr.held[i] = @ - 1]

\* log::begin_op and log::end_op.
BeginOp(S) == [S EXCEPT !.pr.intx = TRUE, !.pr.nbegin = @ + 1]
EndOp(S) == [S EXCEPT !.pr.intx = FALSE, !.pr.nend = @ + 1]

\* The system call returns v; its locals die.
Return(S, v) ==
    [S EXCEPT !.pr.pc = "ret", !.pr.ret = v, !.pr.ip = NullInode,
              !.pr.dp = NullInode, !.pr.off = 0, !.pr.f = NullFile]
Goto(S, l) == [S EXCEPT !.pr.pc = l]

\* dirlookup: the offset (index) and the inum of the entry `name` of
\* directory d, 0 when there is none.
DirOff(I, d, name) ==
    LET ks == {k \in 1..Len(I[d].ents) :
                  I[d].ents[k].inum # 0 /\ I[d].ents[k].name = name}
    IN IF ks = {} THEN 0 ELSE CHOOSE k \in ks : \A j \in ks : k <= j
DirInum(I, d, name) ==
    IF DirOff(I, d, name) = 0 THEN NullInode
    ELSE I[d].ents[DirOff(I, d, name)].inum

\* dirlink: fails when the name is present; else writes the entry into the
\* first free slot, or appends it.
DirLink(I, d, name, inum) ==
    IF DirInum(I, d, name) # NullInode THEN [ok |-> FALSE, inode |-> I]
    ELSE LET fs == {k \in 1..Len(I[d].ents) : I[d].ents[k].inum = 0}
             ents == IF fs = {} THEN Append(I[d].ents, Dirent(name, inum))
                     ELSE [I[d].ents EXCEPT
                              ![CHOOSE k \in fs : \A j \in fs : k <= j] =
                                  Dirent(name, inum)]
         IN [ok |-> TRUE, inode |-> [I EXCEPT ![d].ents = ents]]

\* Path resolution from directory `start`: every component is looked up in
\* a directory.
RECURSIVE Walk(_, _, _)
Walk(I, start, path) ==
    IF path = <<>> THEN start
    ELSE IF start = NullInode \/ I[start].typ # T_DIR THEN NullInode
    ELSE Walk(I, DirInum(I, start, Head(path)), Tail(path))
Namei(I, c, path) == Walk(I, c, path)
NameiParent(I, c, path) ==
    LET d == Walk(I, c, SubSeq(path, 1, Len(path) - 1))
    IN IF d # NullInode /\ I[d].typ = T_DIR THEN d ELSE NullInode
\* The inodes path resolution locks, one at a time, on its way.
WalkLocks(I, c, path) ==
    {Walk(I, c, SubSeq(path, 1, k)) : k \in 0..(Len(path) - 1)} \ {NullInode}
Last(path) == path[Len(path)]

\* Inode::alloc: the first free inode, or null.
IAlloc(I) ==
    IF \E i \in Inums : I[i].typ = 0
    THEN CHOOSE i \in Inums : I[i].typ = 0 /\ \A j \in Inums : I[j].typ = 0 => i <= j
    ELSE NullInode

\* isdirempty that takes the tombstone of an unlinked entry for an entry.
IsDirEmptyLen(I, d) ==
    Len(I[d].ents) <= 2

\* isdirempty: no entry past the first two has a nonzero inum.
IsDirEmpty(I, d) ==
    \A k \in 3..Len(I[d].ents) : I[d].ents[k].inum = 0

\* File::fdalloc: the lowest free slot, or -1.
FdAlloc(ofile) ==
    IF \E fd \in Fds : ofile[fd] = NullFile
    THEN CHOOSE fd \in Fds : ofile[fd] = NullFile /\ \A g \in Fds : ofile[g] = NullFile => fd <= g
    ELSE -1

\* File::alloc: the first handle with no reference, or null.
FileAlloc(F) ==
    IF \E f \in Files : F[f].ref = 0
    THEN CHOOSE f \in Files : F[f].ref = 0 /\ \A g \in Files : F[g].ref = 0 => f <= g
    ELSE NullFile
\* File::dup and File::close; the last close of an inode file drops the
\* handle's inode reference.
FileDup(S, f) == [S EXCEPT !.ftable[f].ref = @ + 1]
FileClose(S, f) ==
    IF S.ftable[f].ref < 1 THEN Panic(S, "File::close")
    ELSE IF S.ftable[f].ref > 1 THEN [S EXCEPT !.ftable[f].ref = @ - 1]
    ELSE IF S.ftable[f].typ \in {FD_INODE, FD_DEVICE}
    THEN Release([S EXCEPT !.ftable[f] = FileZero], S.ftable[f].ip)
    ELSE [S EXCEPT !.ftable[f] = FileZero]

\* argfd: the handle of descriptor fd, or null for a bad descriptor.
ArgFd(S, fd) == IF fd \in Fds THEN S.pr.ofile[fd] ELSE NullFile

\* ---------------------------------------------- system calls: the frame
\* The step of process p ends in state S.
Commit(p, S) ==
    /\ inode' = S.inode
    /\ iref' = S.iref
    /\ ilock' = S.ilock
    /\ ftable' = S.ftable
    /\ proc' = [proc EXCEPT ![p] = S.pr]
    /\ syspanic' = S.panic
    /\ UNCHANGED <<serial, virtio_vars, cache_vars, list_vars, exec_vars>>

\* A successful link or mkdir is remembered (when serial) until the next
\* call, and through that call if it is the unlink of the new name.
PrevAtReturn(p, S) ==
    IF S.pr.pc # "ret" THEN prev
    ELSE IF serial /\ S.pr.call.op = "link" /\ S.pr.ret = 0
    THEN [p |-> p, stage |-> "linked", old |-> S.pr.call.path,
          new |-> S.pr.call.new, inode |-> snap.inode]
    ELSE IF serial /\ S.pr.call.op = "mkdir" /\ S.pr.ret = 0
    THEN [p |-> p, stage |-> "made", old |-> S.pr.call.path,
          new |-> S.pr.call.path, inode |-> snap.inode]
    ELSE IF prev.p = p /\ prev.stage = "unlinking" /\ S.pr.ret = 0
    THEN [prev EXCEPT !.stage = "unlinked"]
    ELSE IF prev.p = p /\ prev.stage = "unmaking" /\ S.pr.ret = 0
    THEN [prev EXCEPT !.stage = "unmade"]
    ELSE NoPrev
PrevAtEnter(p, c) ==
    IF prev.p = p /\ prev.stage = "linked" /\ c.op = "unlink"
       /\ c.path = prev.new
    THEN [prev EXCEPT !.stage = "unlinking"]
    ELSE IF prev.p = p /\ prev.stage = "made" /\ c.op = "unlink"
            /\ c.path = prev.new
    THEN [prev EXCEPT !.stage = "unmaking"]
    ELSE NoPrev

\* Process p traps into the system call c; S is the state in which the call
\* goes on or has returned.
Start(p, c) == [KState(p) EXCEPT !.pr.call = c]
Enter(p, S) ==
    /\ syspanic = "none"
    /\ proc[p].pc = "idle"
    /\ ncalls < (IF serial THEN MaxCalls ELSE MaxConc)
    /\ serial => p = 1
    /\ ncalls' = ncalls + 1
    /\ snap' = IF serial
               THEN [p |-> p, inode |-> inode, iref |-> iref,
                     ftable |-> ftable, pr |-> proc[p]]
               ELSE snap
    /\ prev' = PrevAtEnter(p, S.pr.call)
    /\ Commit(p, S)

\* Process p, at label l, takes a step that ends in state S.
Step(p, l, S) ==
    /\ syspanic = "none"
    /\ proc[p].pc = l
    /\ prev' = PrevAtReturn(p, S)
    /\ Commit(p, S)
    /\ UNCHANGED <<ncalls, snap>>

\* The process can take the locks of path resolution / the lock of inode i.
CanWalk(p, path) ==
    \A i \in WalkLocks(inode, proc[p].cwd, path) : ilock[i] = 0
CanLock(i) == ilock[i] = 0

\* ------------------------------------------------------ sys_dup, sys_close
\* sys_dup that takes the new reference before it looks for a slot.
SysDupRefFirst(p, fd) ==
    \E S \in {Start(p, Call("dup", BadStr, BadStr, O_RDONLY, 0, fd))} :
        LET f == ArgFd(S, fd)
            nfd == FdAlloc(S.pr.ofile)
        IN
        Enter(p, IF f = NullFile THEN Return(S, -1)
                 ELSE IF nfd < 0 THEN Return(FileDup(S, f), -1)
                 ELSE Return(FileDup([S EXCEPT !.pr.ofile[nfd] = f], f), nfd))

SysDup(p, fd) ==
    \E S \in {Start(p, Call("dup", BadStr, BadStr, O_RDONLY, 0, fd))} :
        LET f == ArgFd(S, fd)
            nfd == FdAlloc(S.pr.ofile)
        IN
        Enter(p, IF f = NullFile THEN Return(S, -1)
                 ELSE IF nfd < 0 THEN Return(S, -1)
                 ELSE Return(FileDup([S EXCEPT !.pr.ofile[nfd] = f], f), nfd))

\* sys_close that releases the handle and leaves the slot as it is.
SysCloseKeepSlot(p, fd) ==
    \E S \in {Start(p, Call("close", BadStr, BadStr, O_RDONLY, 0, fd))} :
        LET f == ArgFd(S, fd) IN
        Enter(p, IF f = NullFile THEN Return(S, -1)
                 ELSE Goto([S EXCEPT !.pr.f = f], "close_file"))

\* sys_close to the point where the slot is cleared; the handle f is still
\* to be released.
SysClose(p, fd) ==
    \E S \in {Start(p, Call("close", BadStr, BadStr, O_RDONLY, 0, fd))} :
        LET f == ArgFd(S, fd) IN
        Enter(p, IF f = NullFile THEN Return(S, -1)
                 ELSE Goto([S EXCEPT !.pr.ofile[fd] = NullFile, !.pr.f = f],
                           "close_file"))

\* (*f).close() that tears the handle down whatever its reference count.
CloseFileAll(p) ==
    \E S \in {KState(p)} :
        Step(p, "close_file",
             Return(FileClose([S EXCEPT !.ftable[S.pr.f].ref = 1], S.pr.f),
                    0))

\* (*f).close(), and the return of sys_close.
CloseFile(p) ==
    \E S \in {KState(p)} :
        Step(p, "close_file", Return(FileClose(S, S.pr.f), 0))

\* ---------------------------------------------------------------- sys_pipe
\* sys_pipe that leaves both descriptors in place when copyout fails.
SysPipeKeepSlots(p, ok) ==
    \E S \in {Start(p, Call("pipe", BadStr, BadStr, O_RDONLY, 0, 0))} :
        LET rf == FileAlloc(S.ftable)
            S1 == [S EXCEPT !.ftable[rf] = [ref |-> 1, typ |-> FD_PIPE,
                                            ip |-> NullInode]]
            wf == FileAlloc(S1.ftable)
            S2 == [S1 EXCEPT !.ftable[wf] = [ref |-> 1, typ |-> FD_PIPE,
                                             ip |-> NullInode]]
            fd0 == FdAlloc(S2.pr.ofile)
            S3 == [S2 EXCEPT !.pr.ofile[fd0] = rf]
            fd1 == FdAlloc(S3.pr.ofile)
            S4 == [S3 EXCEPT !.pr.ofile[fd1] = wf]
        IN
        Enter(p,
            IF rf = NullFile THEN Return(S, -1)
            ELSE IF wf = NullFile THEN Return(S, -1)
            ELSE IF fd0 < 0
            THEN Return(FileClose(FileClose(S2, rf), wf), -1)
            ELSE IF fd1 < 0
            THEN Return(FileClose(FileClose(
                     [S3 EXCEPT !.pr.ofile[fd0] = NullFile], rf), wf), -1)
            ELSE IF ~ok
            THEN Return(FileClose(FileClose(S4, rf), wf), -1)
            ELSE Return(S4, 0))

\* pipealloc: two handles on a new pipe, or failure with nothing allocated.
\* `ok` says whether copyout to the user's array succeeds.
SysPipe(p, ok) ==
    \E S \in {Start(p, Call("pipe", BadStr, BadStr, O_RDONLY, 0, 0))} :
        LET rf == FileAlloc(S.ftable)
            S1 == [S EXCEPT !.ftable[rf] = [ref |-> 1, typ |-> FD_PIPE,
                                            ip |-> NullInode]]
            wf == FileAlloc(S1.ftable)
            S2 == [S1 EXCEPT !.ftable[wf] = [ref |-> 1, typ |-> FD_PIPE,
                                             ip |-> NullInode]]
            fd0 == FdAlloc(S2.pr.ofile)
            S3 == [S2 EXCEPT !.pr.ofile[fd0] = rf]
            fd1 == FdAlloc(S3.pr.ofile)
            S4 == [S3 EXCEPT !.pr.ofile[fd1] = wf]
        IN
        Enter(p,
            IF rf = NullFile THEN Return(S, -1)
            ELSE IF wf = NullFile THEN Return(S, -1)
            ELSE IF fd0 < 0
            THEN Return(FileClose(FileClose(S2, rf), wf), -1)
            ELSE IF fd1 < 0
            THEN Return(FileClose(FileClose(
                     [S3 EXCEPT !.pr.ofile[fd0] = NullFile], rf), wf), -1)
            ELSE IF ~ok
            THEN Return(FileClose(FileClose(
                     [S4 EXCEPT !.pr.ofile[fd0] = NullFile,
                                !.pr.ofile[fd1] = NullFile], rf), wf), -1)
            ELSE Return(S4, 0))

\* ---------------------------------------------------------------- sys_link
SysLink(p, old, new) ==
    \E S \in {Start(p, Call("link", old, new, O_RDONLY, 0, 0))} :
        Enter(p, IF old = BadStr \/ new = BadStr THEN Return(S, -1)
                 ELSE Goto(BeginOp(S), "link_namei"))

\* ip = namei(old)
LinkNamei(p) ==
    /\ proc[p].pc = "link_namei"
    /\ CanWalk(p, proc[p].call.path)
    /\ \E S \in {KState(p)} :
        LET i == Namei(S.inode, S.pr.cwd, S.pr.call.path) IN
        Step(p, "link_namei",
            IF i = NullInode THEN Return(EndOp(S), -1)
            ELSE Goto([IGet(S, i) EXCEPT !.pr.ip = i], "link_lock_ip"))

\* sys_link that leaves the directory test with the inode locked.
LinkLockIpNoUnlock(p) ==
    /\ proc[p].pc = "link_lock_ip"
    /\ CanLock(proc[p].ip)
    /\ \E S \in {ILock(KState(p), proc[p].ip)} :
        LET i == S.pr.ip IN
        Step(p, "link_lock_ip",
            IF S.inode[i].typ = T_DIR
            THEN Return(EndOp(IPut(S, i)), -1)
            ELSE Goto(IUnlock([S EXCEPT !.inode[i].nlink = @ + 1], i),
                      "link_parent"))

\* ip.lock(); a directory is refused; nlink += 1; update; unlock.
LinkLockIp(p) ==
    /\ proc[p].pc = "link_lock_ip"
    /\ CanLock(proc[p].ip)
    /\ \E S \in {ILock(KState(p), proc[p].ip)} :
        LET i == S.pr.ip IN
        Step(p, "link_lock_ip",
            IF S.inode[i].typ = T_DIR
            THEN Return(EndOp(IUnlockPut(S, i)), -1)
            ELSE Goto(IUnlock([S EXCEPT !.inode[i].nlink = @ + 1], i),
                      "link_parent"))

\* dp = nameiparent(new, name)
LinkParent(p) ==
    /\ proc[p].pc = "link_parent"
    /\ CanWalk(p, proc[p].call.new)
    /\ \E S \in {KState(p)} :
        LET d == NameiParent(S.inode, S.pr.cwd, S.pr.call.new) IN
        Step(p, "link_parent",
            IF d = NullInode THEN Goto(S, "link_undo")
            ELSE Goto([IGet(S, d) EXCEPT !.pr.dp = d], "link_lock_dp"))

\* dp.lock(); the device test and dirlink; dp.unlockput(); on success
\* ip.put(), end_op, return 0.
LinkLockDp(p) ==
    /\ proc[p].pc = "link_lock_dp"
    /\ CanLock(proc[p].dp)
    /\ \E S \in {ILock(KState(p), proc[p].dp)} :
        LET d == S.pr.dp
            i == S.pr.ip
            r == DirLink(S.inode, d, Last(S.pr.call.new), i)
        IN
        Step(p, "link_lock_dp",
            IF S.inode[d].dev # S.inode[i].dev \/ ~r.ok
            THEN Goto(IUnlockPut(S, d), "link_undo")
            ELSE Return(EndOp(IPut(IUnlockPut([S EXCEPT !.inode = r.inode],
                                              d), i)), 0))

\* sys_link whose failure path releases the inode without taking the
\* increment of nlink back.
LinkUndoKeep(p) ==
    /\ proc[p].pc = "link_undo"
    /\ CanLock(proc[p].ip)
    /\ \E S \in {ILock(KState(p), proc[p].ip)} :
        Step(p, "link_undo", Return(EndOp(IUnlockPut(S, S.pr.ip)), -1))

\* sys_link whose failure path unlocks the inode and keeps its reference.
LinkUndoNoPut(p) ==
    /\ proc[p].pc = "link_undo"
    /\ CanLock(proc[p].ip)
    /\ \E S \in {ILock(KState(p), proc[p].ip)} :
        LET i == S.pr.ip IN
        Step(p, "link_undo",
            Return(EndOp(IUnlock([S EXCEPT !.inode[i].nlink = @ - 1], i)),
                   -1))

\* The failure path: ip.lock(); nlink -= 1; update; unlockput; end_op.
LinkUndo(p) ==
    /\ proc[p].pc = "link_undo"
    /\ CanLock(proc[p].ip)
    /\ \E S \in {ILock(KState(p), proc[p].ip)} :
        LET i == S.pr.ip IN
        Step(p, "link_undo",
            Return(EndOp(IUnlockPut([S EXCEPT !.inode[i].nlink = @ - 1], i)),
                   -1))

\* -------------------------------------------------------------- sys_unlink
SysUnlink(p, path) ==
    \E S \in {Start(p, Call("unlink", path, BadStr, O_RDONLY, 0, 0))} :
        Enter(p, IF path = BadStr THEN Return(S, -1)
                 ELSE Goto(BeginOp(S), "unlink_parent"))

\* dp = nameiparent(path, name)
UnlinkParent(p) ==
    /\ proc[p].pc = "unlink_parent"
    /\ CanWalk(p, proc[p].call.path)
    /\ \E S \in {KState(p)} :
        LET d == NameiParent(S.inode, S.pr.cwd, S.pr.call.path) IN
        Step(p, "unlink_parent",
            IF d = NullInode THEN Return(EndOp(S), -1)
            ELSE Goto([IGet(S, d) EXCEPT !.pr.dp = d], "unlink_lock_dp"))

\* sys_unlink without the test for "." and "..".
UnlinkLockDpNoDots(p) ==
    /\ proc[p].pc = "unlink_lock_dp"
    /\ CanLock(proc[p].dp)
    /\ \E S \in {ILock(KState(p), proc[p].dp)} :
        LET d == S.pr.dp
            name == Last(S.pr.call.path)
            k == DirOff(S.inode, d, name)
        IN
        Step(p, "unlink_lock_dp",
            IF k = 0
            THEN Return(EndOp(IUnlockPut(S, d)), -1)
            ELSE Goto([IGet(S, S.inode[d].ents[k].inum) EXCEPT
                          !.pr.ip = S.inode[d].ents[k].inum, !.pr.off = k],
                      "unlink_lock_ip"))

\* dp.lock(); "." and ".." are refused; ip = dirlookup(dp, name, &off).
UnlinkLockDp(p) ==
    /\ proc[p].pc = "unlink_lock_dp"
    /\ CanLock(proc[p].dp)
    /\ \E S \in {ILock(KState(p), proc[p].dp)} :
        LET d == S.pr.dp
            name == Last(S.pr.call.path)
            k == DirOff(S.inode, d, name)
        IN
        Step(p, "unlink_lock_dp",
            IF name \in Dots \/ k = 0
            THEN Return(EndOp(IUnlockPut(S, d)), -1)
            ELSE Goto([IGet(S, S.inode[d].ents[k].inum) EXCEPT
                          !.pr.ip = S.inode[d].ents[k].inum, !.pr.off = k],
                      "unlink_lock_ip"))

\* sys_unlink that decrements the child's nlink twice.
UnlinkLockIpTwice(p) ==
    /\ proc[p].pc = "unlink_lock_ip"
    /\ CanLock(proc[p].ip)
    /\ \E S \in {ILock(KState(p), proc[p].ip)} :
        LET d == S.pr.dp
            i == S.pr.ip
            S1 == [S EXCEPT !.inode[d].ents[S.pr.off] = DirentZero]
            S2 == IF S1.inode[i].typ = T_DIR
                  THEN [S1 EXCEPT !.inode[d].nlink = @ - 1] ELSE S1
            S3 == IUnlockPut(S2, d)
            S4 == [S3 EXCEPT !.inode[i].nlink = @ - 2]
        IN
        Step(p, "unlink_lock_ip",
            IF S.inode[i].nlink < 1 THEN Panic(S, "unlink: nlink < 1")
            ELSE IF S.inode[i].typ = T_DIR /\ ~IsDirEmpty(S.inode, i)
            THEN Return(EndOp(IUnlockPut(IUnlockPut(S, i), d)), -1)
            ELSE Return(EndOp(IUnlockPut(S4, i)), 0))

\* ip.lock(); a non-empty directory is refused; else the entry is zeroed,
\* the nlinks are decremented, both inodes are released, end_op, return 0.
UnlinkLockIp(p) ==
    /\ proc[p].pc = "unlink_lock_ip"
    /\ CanLock(proc[p].ip)
    /\ \E S \in {ILock(KState(p), proc[p].ip)} :
        LET d == S.pr.dp
            i == S.pr.ip
            S1 == [S EXCEPT !.inode[d].ents[S.pr.off] = DirentZero]
            S2 == IF S1.inode[i].typ = T_DIR
                  THEN [S1 EXCEPT !.inode[d].nlink = @ - 1] ELSE S1
            S3 == IUnlockPut(S2, d)
            S4 == [S3 EXCEPT !.inode[i].nlink = @ - 1]
        IN
        Step(p, "unlink_lock_ip",
            IF S.inode[i].nlink < 1 THEN Panic(S, "unlink: nlink < 1")
            ELSE IF S.inode[i].typ = T_DIR /\ ~IsDirEmpty(S.inode, i)
            THEN Return(EndOp(IUnlockPut(IUnlockPut(S, i), d)), -1)
            ELSE Return(EndOp(IUnlockPut(S4, i)), 0))

\* ------------------------------------------------------ create, sys_open
\* The type create is called with by open, mkdir and mknod.
CreateTyp(c) ==
    IF c.op = "open" THEN T_FILE ELSE IF c.op = "mkdir" THEN T_DIR
    ELSE T_DEVICE

\* sys_open from `f = File::alloc()` on, with inode i locked: the device
\* test, the handle and the descriptor; on failure everything is released.
OpenTail(S, i) ==
    LET f == FileAlloc(S.ftable)
        S1 == [S EXCEPT !.ftable[f].ref = 1]
        fd == FdAlloc(S1.pr.ofile)
        S2 == [S1 EXCEPT !.pr.ofile[fd] = f,
                         !.ftable[f].typ =
                             IF S.inode[i].typ = T_DEVICE THEN FD_DEVICE
                             ELSE FD_INODE,
                         !.ftable[f].ip = i]
    IN
    IF S.inode[i].typ = T_DEVICE
       /\ (S.inode[i].major < 0 \/ S.inode[i].major >= NDEV)
    THEN Return(EndOp(IUnlockPut(S, i)), -1)
    ELSE IF f = NullFile
    THEN Return(EndOp(IUnlockPut(S, i)), -1)
    ELSE IF fd < 0
    THEN Return(EndOp(IUnlockPut(FileClose(S1, f), i)), -1)
    ELSE Return(EndOp(IUnlock(Disown(S2, i), i)), fd)

\* The caller of create goes on with its result: inode i locked, or null.
\* sys_open has its handle still to make; sys_mkdir and sys_mknod are done.
AfterCreate(S, i) ==
    IF i = NullInode THEN Return(EndOp(S), -1)
    ELSE IF S.pr.call.op = "open" THEN Goto(S, "open_file")
    ELSE Return(EndOp(IUnlockPut(S, i)), 0)

\* sys_open after create has returned the locked inode.
OpenFile(p) ==
    /\ proc[p].pc = "open_file"
    /\ \E S \in {KState(p)} :
        Step(p, "open_file", OpenTail(S, S.pr.ip))

\* create: dp = nameiparent(path, name)
CreateParent(p) ==
    /\ proc[p].pc = "create_parent"
    /\ CanWalk(p, proc[p].call.path)
    /\ \E S \in {KState(p)} :
        LET d == NameiParent(S.inode, S.pr.cwd, S.pr.call.path) IN
        Step(p, "create_parent",
            IF d = NullInode THEN AfterCreate(S, NullInode)
            ELSE Goto([IGet(S, d) EXCEPT !.pr.dp = d], "create_lock_dp"))

\* create whose already-exists shortcut keeps the parent locked.
CreateLockDpKeep(p) ==
    /\ proc[p].pc = "create_lock_dp"
    /\ CanLock(proc[p].dp)
    /\ \E S \in {ILock(KState(p), proc[p].dp)} :
        LET d == S.pr.dp
            i == DirInum(S.inode, d, Last(S.pr.call.path))
            n == IAlloc(S.inode)
        IN
        Step(p, "create_lock_dp",
            IF i # NullInode
            THEN Goto([IGet(S, i) EXCEPT !.pr.ip = i], "create_lock_old")
            ELSE IF n = NullInode THEN Panic(S, "create: Inode::alloc")
            ELSE Goto([IGet([S EXCEPT !.inode[n].typ = CreateTyp(S.pr.call)],
                            n) EXCEPT !.pr.ip = n], "create_lock_new"))

\* create: dp.lock(); ip = dirlookup(dp, name); an existing inode is locked
\* after dp.unlockput(); else ip = Inode::alloc(dev, typ).
CreateLockDp(p) ==
    /\ proc[p].pc = "create_lock_dp"
    /\ CanLock(proc[p].dp)
    /\ \E S \in {ILock(KState(p), proc[p].dp)} :
        LET d == S.pr.dp
            i == DirInum(S.inode, d, Last(S.pr.call.path))
            n == IAlloc(S.inode)
        IN
        Step(p, "create_lock_dp",
            IF i # NullInode
            THEN Goto(IUnlockPut([IGet(S, i) EXCEPT !.pr.ip = i], d),
                      "create_lock_old")
            ELSE IF n = NullInode THEN Panic(S, "create: Inode::alloc")
            ELSE Goto([IGet([S EXCEPT !.inode[n].typ = CreateTyp(S.pr.call)],
                            n) EXCEPT !.pr.ip = n], "create_lock_new"))

\* create that returns the existing inode to every file-like request, the
\* DEVICE request of mknod included.
CreateLockOldFileLike(p) ==
    /\ proc[p].pc = "create_lock_old"
    /\ CanLock(proc[p].ip)
    /\ \E S \in {ILock(KState(p), proc[p].ip)} :
        LET i == S.pr.ip IN
        Step(p, "create_lock_old",
            IF CreateTyp(S.pr.call) \in {T_FILE, T_DEVICE}
               /\ S.inode[i].typ \in {T_FILE, T_DEVICE}
            THEN AfterCreate(S, i)
            ELSE AfterCreate(IUnlockPut(S, i), NullInode))

\* create, the existing inode: ip.lock(); open of a file or device gets it,
\* any other caller gets null after ip.unlockput().
CreateLockOld(p) ==
    /\ proc[p].pc = "create_lock_old"
    /\ CanLock(proc[p].ip)
    /\ \E S \in {ILock(KState(p), proc[p].ip)} :
        LET i == S.pr.ip IN
        Step(p, "create_lock_old",
            IF CreateTyp(S.pr.call) = T_FILE
               /\ S.inode[i].typ \in {T_FILE, T_DEVICE}
            THEN AfterCreate(S, i)
            ELSE AfterCreate(IUnlockPut(S, i), NullInode))

\* create that counts the entry "." of a new directory in its own nlink.
CreateLockNewSelf(p) ==
    /\ proc[p].pc = "create_lock_new"
    /\ CanLock(proc[p].ip)
    /\ \E S \in {ILock(KState(p), proc[p].ip)} :
        LET d == S.pr.dp
            i == S.pr.ip
            isdir == CreateTyp(S.pr.call) = T_DIR
            I1 == [S.inode EXCEPT ![i].major = S.pr.call.major,
                                  ![i].nlink = IF isdir THEN 2 ELSE 1]
            I2 == IF isdir THEN [I1 EXCEPT ![d].nlink = @ + 1] ELSE I1
            r1 == IF isdir THEN DirLink(I2, i, ".", i)
                  ELSE [ok |-> TRUE, inode |-> I2]
            r2 == IF isdir THEN DirLink(r1.inode, i, "..", d) ELSE r1
            r3 == DirLink(r2.inode, d, Last(S.pr.call.path), i)
        IN
        Step(p, "create_lock_new",
            IF ~r1.ok \/ ~r2.ok THEN Panic(S, "create dots")
            ELSE IF ~r3.ok THEN Panic(S, "create: dirlink")
            ELSE AfterCreate(IUnlockPut([S EXCEPT !.inode = r3.inode], d), i))

\* create, the new inode: ip.lock(); major, nlink = 1, update; for a
\* directory dp.nlink += 1 and the entries "." and ".."; the entry in dp;
\* dp.unlockput(); the locked inode goes to the caller.
CreateLockNew(p) ==
    /\ proc[p].pc = "create_lock_new"
    /\ CanLock(proc[p].ip)
    /\ \E S \in {ILock(KState(p), proc[p].ip)} :
        LET d == S.pr.dp
            i == S.pr.ip
            isdir == CreateTyp(S.pr.call) = T_DIR
            I1 == [S.inode EXCEPT ![i].major = S.pr.call.major,
                                  ![i].nlink = 1]
            I2 == IF isdir THEN [I1 EXCEPT ![d].nlink = @ + 1] ELSE I1
            r1 == IF isdir THEN DirLink(I2, i, ".", i)
                  ELSE [ok |-> TRUE, inode |-> I2]
            r2 == IF isdir THEN DirLink(r1.inode, i, "..", d) ELSE r1
            r3 == DirLink(r2.inode, d, Last(S.pr.call.path), i)
        IN
        Step(p, "create_lock_new",
            IF ~r1.ok \/ ~r2.ok THEN Panic(S, "create dots")
            ELSE IF ~r3.ok THEN Panic(S, "create: dirlink")
            ELSE AfterCreate(IUnlockPut([S EXCEPT !.inode = r3.inode], d), i))

\* FcntlFlags::from_bits_truncate: the bits that are no flag are dropped.
FromBitsTruncate(raw) == raw \cap FcntlFlags

SysOpen(p, path, raw) ==
    \E S \in {Start(p, Call("open", path, BadStr, FromBitsTruncate(raw), 0,
                            0))} :
        Enter(p, IF path = BadStr THEN Return(S, -1)
                 ELSE IF "O_CREATE" \in S.pr.call.omode
                 THEN Goto(BeginOp(S), "create_parent")
                 ELSE Goto(BeginOp(S), "open_namei"))

\* sys_open without O_CREATE: ip = namei(path)
OpenNamei(p) ==
    /\ proc[p].pc = "open_namei"
    /\ CanWalk(p, proc[p].call.path)
    /\ \E S \in {KState(p)} :
        LET i == Namei(S.inode, S.pr.cwd, S.pr.call.path) IN
        Step(p, "open_namei",
            IF i = NullInode THEN Return(EndOp(S), -1)
            ELSE Goto([IGet(S, i) EXCEPT !.pr.ip = i], "open_lock_ip"))

\* sys_open without the test that refuses a directory.
OpenLockIpAnyDir(p) ==
    /\ proc[p].pc = "open_lock_ip"
    /\ CanLock(proc[p].ip)
    /\ \E S \in {ILock(KState(p), proc[p].ip)} :
        Step(p, "open_lock_ip", OpenTail(S, S.pr.ip))

\* sys_open that ends the transaction twice when it refuses a directory.
OpenLockIpEndTwice(p) ==
    /\ proc[p].pc = "open_lock_ip"
    /\ CanLock(proc[p].ip)
    /\ \E S \in {ILock(KState(p), proc[p].ip)} :
        LET i == S.pr.ip IN
        Step(p, "open_lock_ip",
            IF S.inode[i].typ = T_DIR /\ S.pr.call.omode # O_RDONLY
            THEN Return(EndOp(EndOp(IUnlockPut(S, i))), -1)
            ELSE OpenTail(S, i))

\* ip.lock(); a directory opens read-only or not at all; then the handle.
OpenLockIp(p) ==
    /\ proc[p].pc = "open_lock_ip"
    /\ CanLock(proc[p].ip)
    /\ \E S \in {ILock(KState(p), proc[p].ip)} :
        LET i == S.pr.ip IN
        Step(p, "open_lock_ip",
            IF S.inode[i].typ = T_DIR /\ S.pr.call.omode # O_RDONLY
            THEN Return(EndOp(IUnlockPut(S, i)), -1)
            ELSE OpenTail(S, i))

\* ------------------------------------------- sys_mkdir, sys_mknod, sys_chdir
SysMkdir(p, path) ==
    \E S \in {BeginOp(Start(p, Call("mkdir", path, BadStr, O_RDONLY, 0, 0)))} :
        Enter(p, IF path = BadStr THEN Return(EndOp(S), -1)
                 ELSE Goto(S, "create_parent"))

SysMknod(p, path, major) ==
    \E S \in {BeginOp(Start(p, Call("mknod", path, BadStr, O_RDONLY, major,
                                    0)))} :
        Enter(p, IF path = BadStr THEN Return(EndOp(S), -1)
                 ELSE Goto(S, "create_parent"))

SysChdir(p, path) ==
    \E S \in {BeginOp(Start(p, Call("chdir", path, BadStr, O_RDONLY, 0, 0)))} :
        Enter(p, IF path = BadStr THEN Return(EndOp(S), -1)
                 ELSE Goto(S, "chdir_namei"))

\* ip = namei(path)
ChdirNamei(p) ==
    /\ proc[p].pc = "chdir_namei"
    /\ CanWalk(p, proc[p].call.path)
    /\ \E S \in {KState(p)} :
        LET i == Namei(S.inode, S.pr.cwd, S.pr.call.path) IN
        Step(p, "chdir_namei",
            IF i = NullInode THEN Return(EndOp(S), -1)
            ELSE Goto([IGet(S, i) EXCEPT !.pr.ip = i], "chdir_lock_ip"))

\* ip.lock(); only a directory will do; ip.unlock(); cwd.put(); end_op;
\* cwd = ip.
ChdirLockIp(p) ==
    /\ proc[p].pc = "chdir_lock_ip"
    /\ CanLock(proc[p].ip)
    /\ \E S \in {ILock(KState(p), proc[p].ip)} :
        LET i == S.pr.ip
            S1 == EndOp(Release(IUnlock(S, i), S.pr.cwd))
        IN
        Step(p, "chdir_lock_ip",
            IF S.inode[i].typ # T_DIR
            THEN Return(EndOp(IUnlockPut(S, i)), -1)
            ELSE Return(Disown([S1 EXCEPT !.pr.cwd = i], i), 0))

\* The call is over: the process is back in user space with the result,
\* and the kernel keeps nothing of the call.
SysRet(p) ==
    /\ syspanic = "none"
    /\ proc[p].pc = "ret"
    /\ proc' = [proc EXCEPT ![p].pc = "idle", ![p].call = NoCall,
                            ![p].ret = 0, ![p].nbegin = 0, ![p].nend = 0]
    /\ snap' = NoSnap
    /\ UNCHANGED <<inode, iref, ilock, ftable, syspanic, ncalls, serial, prev,
                   virtio_vars, cache_vars, list_vars, exec_vars>>

\* ------------------------------------------ system calls: specifications
SysStep(p) ==
    \/ LinkNamei(p)
    \/ LinkLockIp(p)
    \/ LinkParent(p)
    \/ LinkLockDp(p)
    \/ LinkUndo(p)
    \/ UnlinkParent(p)
    \/ UnlinkLockDp(p)
    \/ UnlinkLockIp(p)
    \/ CreateParent(p)
    \/ CreateLockDp(p)
    \/ CreateLockOld(p)
    \/ CreateLockNew(p)
    \/ CloseFile(p)
    \/ OpenNamei(p)
    \/ OpenLockIp(p)
    \/ OpenFile(p)
    \/ ChdirNamei(p)
    \/ ChdirLockIp(p)

\* The arguments the calls are issued with.
\* Concurrent callers pass the paths made of names.
ConcPaths == Paths \ {<<c>> : c \in Dots}
PathArgs == (IF serial THEN Paths ELSE ConcPaths) \cup {BadStr}
FdArgs == Fds \cup {NOFILE}
OModeArgs == IF serial THEN OModes \cup OModesMore ELSE OModes

SysCall(p) ==
    \/ \E fd \in FdArgs : SysDup(p, fd)
    \/ \E fd \in FdArgs : SysClose(p, fd)
    \/ \E ok \in BOOLEAN : SysPipe(p, ok)
    \/ \E old \in PathArgs : \E new \in PathArgs : SysLink(p, old, new)
    \/ \E path \in PathArgs : SysUnlink(p, path)
    \/ \E path \in PathArgs : \E raw \in OModeArgs : SysOpen(p, path, raw)
    \/ \E path \in PathArgs : SysMkdir(p, path)
    \/ \E path \in PathArgs : \E major \in Majors : SysMknod(p, path, major)
    \/ \E path \in PathArgs : SysChdir(p, path)

NextSys ==
    \/ \E p \in Procs : SysCall(p)
    \/ \E p \in Procs : SysStep(p)
    \/ \E p \in Procs : SysRet(p)

\* Processes that issue system calls concurrently.
SpecSys == Init /\ [][NextSys]_vars

\* Processes that issue system calls one at a time.
InitSerial == DiskInit(0) /\ SysInit(TRUE) /\ ListInit /\ ExecInit
SpecSerial == InitSerial /\ [][NextSys]_vars

\* ------------------------------------------------------ lists: ListEntry
\* ListEntry::is_unlinked, remove, push_back and push_front on the entries
\* E, statement by statement.
IsUnlinked(E, e) == E[e].next = e

EntryRemove(E, s) ==
    LET E1 == [E EXCEPT ![E[s].prev].next = E[s].next]
        E2 == [E1 EXCEPT ![E1[s].next].prev = E1[s].prev]
    IN [E2 EXCEPT ![s] = [prev |-> s, next |-> s]]

\* push_back that does not unlink elt first.
EntryPushBackNoUnlink(E, s, elt) ==
    LET E1 == [E EXCEPT ![elt].prev = E[s].prev]
        E2 == [E1 EXCEPT ![elt].next = s]
        E3 == [E2 EXCEPT ![E2[elt].next].prev = elt]
    IN [E3 EXCEPT ![E3[elt].prev].next = elt]

EntryPushBack(E, s, elt) ==
    LET E0 == IF ~IsUnlinked(E, elt) THEN EntryRemove(E, elt) ELSE E
        E1 == [E0 EXCEPT ![elt].prev = E0[s].prev]
        E2 == [E1 EXCEPT ![elt].next = s]
        E3 == [E2 EXCEPT ![E2[elt].next].prev = elt]
    IN [E3 EXCEPT ![E3[elt].prev].next = elt]

EntryPushFront(E, s, elt) ==
    LET E0 == IF ~IsUnlinked(E, elt) THEN EntryRemove(E, elt) ELSE E
        E1 == [E0 EXCEPT ![elt].prev = s]
        E2 == [E1 EXCEPT ![elt].next = E1[s].next]
        E3 == [E2 EXCEPT ![E2[elt].next].prev = elt]
    IN [E3 EXCEPT ![E3[elt].prev].next = elt]

\* The list_entry field of node n.
EntryOf(n) == n + LIST_ENTRY_OFFSET

\* ListRef::is_empty / ListMut::is_empty.
IsEmpty(E, l) == IsUnlinked(E, l)
\* NodeMut::remove.
NodeMutRemove(E, n) == EntryRemove(E, EntryOf(n))
\* ListMut::pop_front and pop_back: front_mut / back_mut, then remove.
PopFront(E, l) ==
    IF IsEmpty(E, l) THEN E
    ELSE NodeMutRemove(E, FromListEntry(E[l].next))
PopBack(E, l) ==
    IF IsEmpty(E, l) THEN E
    ELSE NodeMutRemove(E, FromListEntry(E[l].prev))
\* The loop of List's drop.
RECURSIVE DropLoop(_, _)
DropLoop(E, l) == IF IsEmpty(E, l) THEN E ELSE DropLoop(PopFront(E, l), l)

\* The entries met from e along next, up to `stop` (or a null pointer).
RECURSIVE SeqFrom(_, _, _, _)
SeqFrom(E, e, stop, fuel) ==
    IF e = stop \/ e = NullEntry \/ fuel = 0 THEN <<>>
    ELSE <<e>> \o SeqFrom(E, E[e].next, stop, fuel - 1)
\* The ring of list l from its front to its back.
ListSeq(E, l) == SeqFrom(E, E[l].next, l, NLists + NNodes)
Range(q) == {q[i] : i \in 1..Len(q)}

\* --------------------------------------------------------- lists: frame
\* A ListMut or ListRef of list l can be had: no cursor, no iterator has
\* borrowed the list.
Borrowed(l) == cursor.head = l \/ iter.list = l
CanUse(l) == lpanic = "none" /\ l \in alive /\ ~Borrowed(l)
\* The step ends with entries E2; ins is the node it was asked to insert
\* (or null); a node it unlinked was unlinked by `by`; rm is the record of
\* the step when it is a remove_current.
ListCommit(E2, ins, by, rm) ==
    /\ list_entry' = E2
    /\ how' = [n \in Nodes |->
                 IF n = ins THEN "in"
                 ELSE IF ~IsUnlinked(list_entry, EntryOf(n))
                         /\ IsUnlinked(E2, EntryOf(n))
                 THEN by
                 ELSE how[n]]
    /\ iter' = IF iter # NoIter
                  /\ ListSeq(E2, iter.list) # ListSeq(list_entry, iter.list)
               THEN [iter EXCEPT !.touched = TRUE]
               ELSE iter
    /\ lastrm' = IF rm # NoRm THEN rm
                 ELSE IF lastrm # NoRm
                         /\ ListSeq(E2, lastrm.list)
                                # ListSeq(list_entry, lastrm.list)
                 THEN NoRm
                 ELSE lastrm
    /\ UNCHANGED <<data, lastw, virtio_vars, cache_vars, sys_vars, exec_vars>>

\* ------------------------------------------------------- lists: ListMut
ListPushBack(l, n) ==
    /\ CanUse(l) /\ n \in alive
    /\ ListCommit(EntryPushBack(list_entry, l, EntryOf(n)), n, "push", NoRm)
    /\ UNCHANGED <<alive, cursor, lpanic>>

ListPushFront(l, n) ==
    /\ CanUse(l) /\ n \in alive
    /\ ListCommit(EntryPushFront(list_entry, l, EntryOf(n)), n, "push", NoRm)
    /\ UNCHANGED <<alive, cursor, lpanic>>

ListPopBack(l) ==
    /\ CanUse(l)
    /\ ListCommit(PopBack(list_entry, l), NullEntry, "pop_back", NoRm)
    /\ UNCHANGED <<alive, cursor, lpanic>>

ListPopFront(l) ==
    /\ CanUse(l)
    /\ ListCommit(PopFront(list_entry, l), NullEntry, "pop_front", NoRm)
    /\ UNCHANGED <<alive, cursor, lpanic>>

\* push_back(node).remove(): remove on the NodeMut that push_back returns.
ListPushRemove(l, n) ==
    /\ CanUse(l) /\ n \in alive
    /\ ListCommit(NodeMutRemove(EntryPushBack(list_entry, l, EntryOf(n)), n),
                  NullEntry, "remove", NoRm)
    /\ UNCHANGED <<alive, cursor, lpanic>>

\* Drop of List: pops until the list is empty.  A list on whose head a
\* cursor of another list stands is not dropped.
ListDrop(l) ==
    /\ CanUse(l)
    /\ cursor.current # l
    /\ ListCommit([DropLoop(list_entry, l) EXCEPT ![l] = ListEntryNew],
                  NullEntry, "drop", NoRm)
    /\ alive' = alive \ {l}
    /\ UNCHANGED <<cursor, lpanic>>

\* Drop of Node n, whose storage is given up unless the assertion fails.
\* An unlinked node a cursor or an iterator stands on is not dropped.
NodeDrop(n) ==
    /\ lpanic = "none" /\ n \in alive
    /\ IsUnlinked(list_entry, EntryOf(n)) =>
           /\ cursor.current # EntryOf(n)
           /\ IF iter = NoIter THEN TRUE
              ELSE iter.head # EntryOf(n) /\ iter.tail # EntryOf(n)
    /\ alive' = alive \ {n}
    /\ IF IsUnlinked(list_entry, EntryOf(n))
       THEN /\ list_entry' = [list_entry EXCEPT ![EntryOf(n)] = ListEntryNew]
            /\ lpanic' = lpanic
       ELSE /\ lpanic' = NodeDropMsg
            /\ list_entry' = list_entry
    /\ UNCHANGED <<cursor, iter, how, lastrm, data, lastw, virtio_vars,
                   cache_vars,
                   sys_vars, exec_vars>>

\* ----------------------------------------------------- lists: CursorMut
\* There is one cursor or one iterator at a time.
CursorFrontMut(l) ==
    /\ CanUse(l) /\ cursor = NoCursor /\ iter = NoIter
    /\ cursor' = [head |-> l, current |-> list_entry[l].next]
    /\ UNCHANGED <<list_entry, alive, iter, lpanic, how, lastrm, data, lastw,
                   virtio_vars, cache_vars, sys_vars, exec_vars>>

CursorBackMut(l) ==
    /\ CanUse(l) /\ cursor = NoCursor /\ iter = NoIter
    /\ cursor' = [head |-> l, current |-> list_entry[l].prev]
    /\ UNCHANGED <<list_entry, alive, iter, lpanic, how, lastrm, data, lastw,
                   virtio_vars, cache_vars, sys_vars, exec_vars>>

HasCursor == lpanic = "none" /\ cursor # NoCursor

MovePrev ==
    /\ HasCursor
    /\ cursor' = [cursor EXCEPT !.current = list_entry[cursor.current].prev]
    /\ UNCHANGED <<list_entry, alive, iter, lpanic, how, lastrm, data, lastw,
                   virtio_vars, cache_vars, sys_vars, exec_vars>>

MoveNext ==
    /\ HasCursor
    /\ cursor' = [cursor EXCEPT !.current = list_entry[cursor.current].next]
    /\ UNCHANGED <<list_entry, alive, iter, lpanic, how, lastrm, data, lastw,
                   virtio_vars, cache_vars, sys_vars, exec_vars>>

InsertBefore(n) ==
    /\ HasCursor /\ n \in alive
    /\ ListCommit(EntryPushBack(list_entry, cursor.current, EntryOf(n)),
                  n, "push", NoRm)
    /\ UNCHANGED <<alive, cursor, lpanic>>

InsertAfter(n) ==
    /\ HasCursor /\ n \in alive
    /\ ListCommit(EntryPushFront(list_entry, cursor.current, EntryOf(n)),
                  n, "push", NoRm)
    /\ UNCHANGED <<alive, cursor, lpanic>>

RemoveCurrent ==
    /\ HasCursor
    /\ IF cursor.head # cursor.current
       THEN LET ptr == list_entry[cursor.current].next
                was == ListSeq(list_entry, cursor.head)
            IN /\ ListCommit(EntryRemove(list_entry, cursor.current),
                             NullEntry, "remove_current",
                             IF cursor.current \in Range(was)
                             THEN [list |-> cursor.head, before |-> was,
                                   node |-> FromListEntry(cursor.current)]
                             ELSE NoRm)
               /\ cursor' = [cursor EXCEPT !.current = ptr]
       ELSE UNCHANGED <<list_entry, cursor, iter, how, lastrm, data, lastw,
                        virtio_vars,
                        cache_vars, sys_vars, exec_vars>>
    /\ UNCHANGED <<alive, lpanic>>

\* The cursor goes out of scope.
CursorDrop ==
    /\ HasCursor
    /\ cursor' = NoCursor
    /\ UNCHANGED <<list_entry, alive, iter, lpanic, how, lastrm, data, lastw,
                   virtio_vars, cache_vars, sys_vars, exec_vars>>

\* ---------------------------------------------------------- lists: Iter
\* ListRef::iter (and ListMut::iter, iter_mut): fwd and bwd are what next
\* and next_back have yielded, `none` that one of them returned None, base
\* the ring when the iterator was made, touched that it changed since.
IterNew(l) ==
    /\ CanUse(l) /\ cursor = NoCursor /\ iter = NoIter
    /\ iter' = [list |-> l, head |-> list_entry[l].next, tail |-> l,
                fwd |-> <<>>, bwd |-> <<>>, none |-> FALSE,
                base |-> ListSeq(list_entry, l), touched |-> FALSE]
    /\ UNCHANGED <<list_entry, alive, cursor, lpanic, how, lastrm, data, lastw,
                   virtio_vars, cache_vars, sys_vars, exec_vars>>

HasIter ==
    /\ lpanic = "none" /\ iter # NoIter
    /\ Len(iter.fwd) + Len(iter.bwd) < MaxYield

\* next_back that yields the entry at tail before it moves tail.
IterNextBackLate ==
    /\ HasIter
    /\ iter' = IF iter.head = iter.tail THEN [iter EXCEPT !.none = TRUE]
               ELSE [iter EXCEPT
                        !.tail = list_entry[iter.tail].prev,
                        !.bwd = Append(@, FromListEntry(iter.tail))]
    /\ UNCHANGED <<list_entry, alive, cursor, lpanic, how, lastrm, data, lastw,
                   virtio_vars, cache_vars, sys_vars, exec_vars>>

IterNext ==
    /\ HasIter
    /\ iter' = IF iter.head = iter.tail THEN [iter EXCEPT !.none = TRUE]
               ELSE [iter EXCEPT
                        !.head = list_entry[iter.head].next,
                        !.fwd = Append(@, FromListEntry(iter.head))]
    /\ UNCHANGED <<list_entry, alive, cursor, lpanic, how, lastrm, data, lastw,
                   virtio_vars, cache_vars, sys_vars, exec_vars>>

IterNextBack ==
    /\ HasIter
    /\ iter' = IF iter.head = iter.tail THEN [iter EXCEPT !.none = TRUE]
               ELSE [iter EXCEPT
                        !.tail = list_entry[iter.tail].prev,
                        !.bwd = Append(@, FromListEntry(
                                              list_entry[iter.tail].prev))]
    /\ UNCHANGED <<list_entry, alive, cursor, lpanic, how, lastrm, data, lastw,
                   virtio_vars, cache_vars, sys_vars, exec_vars>>

\* The iterator goes out of scope.
IterDrop ==
    /\ lpanic = "none" /\ iter # NoIter
    /\ iter' = NoIter
    /\ UNCHANGED <<list_entry, alive, cursor, lpanic, how, lastrm, data, lastw,
                   virtio_vars, cache_vars, sys_vars, exec_vars>>

\* ------------------------------------------------ lists: specifications
\* Lists, nodes and one cursor, used and dropped in any order.
NextList ==
    \/ \E l \in Lists : \E n \in Nodes : ListPushBack(l, n)
    \/ \E l \in Lists : \E n \in Nodes : ListPushFront(l, n)
    \/ \E l \in Lists : ListPopBack(l)
    \/ \E l \in Lists : ListPopFront(l)
    \/ \E l \in Lists : \E n \in Nodes : ListPushRemove(l, n)
    \/ \E l \in Lists : ListDrop(l)
    \/ \E n \in Nodes : NodeDrop(n)
    \/ \E l \in Lists : CursorFrontMut(l)
    \/ \E l \in Lists : CursorBackMut(l)
    \/ MovePrev
    \/ MoveNext
    \/ \E n \in Nodes : InsertBefore(n)
    \/ \E n \in Nodes : InsertAfter(n)
    \/ RemoveCurrent
    \/ CursorDrop

SpecList == Init /\ [][NextList]_vars

\* Lists filled by pushes and edited by one cursor, and one iterator.
NextIter ==
    \/ \E l \in Lists : \E n \in Nodes : ListPushBack(l, n)
    \/ \E l \in Lists : \E n \in Nodes : ListPushFront(l, n)
    \/ \E l \in Lists : CursorFrontMut(l)
    \/ MoveNext
    \/ RemoveCurrent
    \/ CursorDrop
    \/ \E l \in Lists : IterNew(l)
    \/ IterNext
    \/ IterNextBack
    \/ IterDrop

SpecIter == Init /\ [][NextIter]_vars

\* ------------------------------------------------- lists: the payload
\* Option<&T>: None is the empty sequence, Some(v) the sequence of v.
NoneOpt == <<>>
Some(v) == <<v>>
Payloads == 0..MaxPayload

\* get_inner that gives the payload whether the node is linked or not.
GetInnerAlways(E, D, n) == Some(D[n])
\* Node::get_inner and Node::get_mut_inner, of node n with entries E and
\* payloads D.
GetInner(E, D, n) ==
    IF IsUnlinked(E, EntryOf(n)) THEN Some(D[n]) ELSE NoneOpt
GetMutInner(E, D, n) ==
    IF IsUnlinked(E, EntryOf(n)) THEN Some(D[n]) ELSE NoneOpt

\* `*list_mut.back_mut().expect("") = v` (front_mut when ~back): DerefMut
\* of the NodeMut of the node at that end.
NodeMutWrite(l, back, v) ==
    /\ CanUse(l) /\ ~IsEmpty(list_entry, l)
    /\ LET n == FromListEntry(IF back THEN list_entry[l].prev
                              ELSE list_entry[l].next)
       IN /\ data' = [data EXCEPT ![n] = v]
          /\ lastw' = [lastw EXCEPT ![n] = v]
    /\ UNCHANGED <<list_entry, alive, cursor, iter, lpanic, how, lastrm,
                   virtio_vars, cache_vars, sys_vars, exec_vars>>

\* `for e in list_mut.iter_mut() { *e += 1 }`, the payload counted modulo
\* MaxPayload + 1.
IterMutWrite(l) ==
    /\ CanUse(l)
    /\ LET ns == {FromListEntry(e) : e \in Range(ListSeq(list_entry, l))}
           D2 == [n \in Nodes |-> IF n \in ns
                                  THEN (data[n] + 1) % (MaxPayload + 1)
                                  ELSE data[n]]
       IN /\ data' = D2
          /\ lastw' = [n \in Nodes |-> IF n \in ns THEN D2[n] ELSE lastw[n]]
    /\ UNCHANGED <<list_entry, alive, cursor, iter, lpanic, how, lastrm,
                   virtio_vars, cache_vars, sys_vars, exec_vars>>

\* Lists and a cursor whose nodes are written through the list.
NextInner ==
    \/ \E l \in Lists : \E n \in Nodes : ListPushBack(l, n)
    \/ \E l \in Lists : \E n \in Nodes : ListPushFront(l, n)
    \/ \E l \in Lists : ListPopBack(l)
    \/ \E l \in Lists : ListPopFront(l)
    \/ \E l \in Lists : \E back \in BOOLEAN : \E v \in Payloads :
           NodeMutWrite(l, back, v)
    \/ \E l \in Lists : IterMutWrite(l)
    \/ \E l \in Lists : CursorFrontMut(l)
    \/ \E n \in Nodes : InsertBefore(n)
    \/ CursorDrop

SpecInner == Init /\ [][NextInner]_vars

\* ---------------------------------------------------------------- sys_exec
\* The pages sys_exec took with kalloc and has not passed to kfree.
ExecHolds == {pg \in ex.scratch : ex.kfreed[pg] = 0}
ExecFrame == UNCHANGED <<virtio_vars, cache_vars, sys_vars, list_vars>>

\* sys_exec up to the loop: argstr of the path and argaddr of uargv; argv
\* starts all null.
SysExec(okargs) ==
    /\ ex.pc = "idle"
    /\ ex.n < MaxExec
    /\ ex' = IF okargs
             THEN [ExecZero EXCEPT !.pc = "loop", !.n = ex.n + 1]
             ELSE [ExecZero EXCEPT !.pc = "ret", !.why = "args", !.ret = -1,
                                   !.n = ex.n + 1]
    /\ UNCHANGED kmem
    /\ ExecFrame

\* One turn of the loop.  `a` is what user memory holds at uargv[i]: an
\* address fetchaddr cannot read, the null that ends the array, a string
\* fetchstr copies, or one it cannot copy.  The failures go to the loop that
\* frees the pages, with -1 to return.
ExecFetch(a) ==
    /\ ex.pc = "loop"
    /\ IF ex.i >= MAXARG
       THEN /\ ex' = [ex EXCEPT !.pc = "free", !.why = "toomany", !.i = 0,
                                !.ret = -1]
            /\ UNCHANGED kmem
       ELSE IF a = "badaddr"
       THEN /\ ex' = [ex EXCEPT !.pc = "free", !.why = "fetchaddr", !.i = 0,
                                !.ret = -1]
            /\ UNCHANGED kmem
       ELSE IF a = "null"
       THEN /\ ex' = [ex EXCEPT !.pc = "exec", !.argv[ex.i] = NullPage]
            /\ UNCHANGED kmem
       ELSE IF kmem = {}
       THEN /\ ex' = [ex EXCEPT !.pc = "panic", !.why = "sys_exec kalloc"]
            /\ UNCHANGED kmem
       ELSE \E pg \in kmem :
            /\ kmem' = kmem \ {pg}
            /\ ex' = IF a = "badstr"
                     THEN [ex EXCEPT !.argv[ex.i] = pg,
                                     !.scratch = @ \cup {pg},
                                     !.pc = "free", !.why = "fetchstr",
                                     !.i = 0, !.ret = -1]
                     ELSE [ex EXCEPT !.argv[ex.i] = pg,
                                     !.scratch = @ \cup {pg},
                                     !.i = @ + 1]
    /\ ExecFrame

\* ret = exec(path, argv): the loader fails, or gives the argument count.
ExecLoad(ok) ==
    /\ ex.pc = "exec"
    /\ ex' = [ex EXCEPT !.pc = "free", !.why = "loader", !.loads = @ + 1,
                        !.ret = IF ok THEN ex.i ELSE -1, !.i = 0]
    /\ UNCHANGED kmem
    /\ ExecFrame

\* The loop whose bound is one short of the length of argv.
ExecFreeShort ==
    /\ ex.pc = "free"
    /\ IF ex.i < MAXARG - 1 /\ ex.argv[ex.i] # NullPage
       THEN /\ kmem' = kmem \cup {ex.argv[ex.i]}
            /\ ex' = [ex EXCEPT !.kfreed[ex.argv[ex.i]] = @ + 1, !.i = @ + 1]
       ELSE /\ ex' = [ex EXCEPT !.pc = "ret"]
            /\ UNCHANGED kmem
    /\ ExecFrame

\* `while i < MAXARG && !argv[i].is_null() { kfree(argv[i]); i += 1 }`, one
\* turn, and the return when the loop ends.
ExecFree ==
    /\ ex.pc = "free"
    /\ IF ex.i < MAXARG /\ ex.argv[ex.i] # NullPage
       THEN /\ kmem' = kmem \cup {ex.argv[ex.i]}
            /\ ex' = [ex EXCEPT !.kfreed[ex.argv[ex.i]] = @ + 1, !.i = @ + 1]
       ELSE /\ ex' = [ex EXCEPT !.pc = "ret"]
            /\ UNCHANGED kmem
    /\ ExecFrame

\* The caller has the value returned; the locals of the call are gone.
ExecRet ==
    /\ ex.pc = "ret"
    /\ ex' = [ExecZero EXCEPT !.n = ex.n]
    /\ UNCHANGED kmem
    /\ ExecFrame

\* Another part of the kernel takes a page, or frees one it holds.
OtherKalloc ==
    /\ \E pg \in kmem : kmem' = kmem \ {pg}
    /\ UNCHANGED ex
    /\ ExecFrame
OtherKfree ==
    /\ \E pg \in Pages \ (kmem \cup ExecHolds) : kmem' = kmem \cup {pg}
    /\ UNCHANGED ex
    /\ ExecFrame

NextExec ==
    \/ \E okargs \in BOOLEAN : SysExec(okargs)
    \/ \E a \in {"badaddr", "null", "str", "badstr"} : ExecFetch(a)
    \/ \E ok \in BOOLEAN : ExecLoad(ok)
    \/ ExecFree
    \/ ExecRet
    \/ OtherKalloc
    \/ OtherKfree

SpecExec == Init /\ [][NextExec]_vars

\* ------------------------------------------------------------ properties
LockFree == lock = NoHolder
InRw(t) == pc[t] # "idle"
AllIdle == \A t \in Threads : ~InRw(t)
NumFree == Cardinality({i \in Descs : free[i]})

\* The threads whose request is live: rw holds its three descriptors and has
\* not freed them yet.
LiveReq ==
    {t \in Threads : pc[t] \in {"format", "ring", "publish", "notify", "wait",
                                "sleep_buf", "woken_buf", "clear", "free"}}
\* The threads whose request has been published to the device.
Published ==
    {t \in Threads : pc[t] \in {"notify", "wait", "sleep_buf", "woken_buf",
                                "clear", "free"}}
HeadOf(t) == descs[t][1]
\* The descriptors reached from head h over two `next` links.
Chain(h) == {h, desc[h].next, desc[desc[h].next].next}
\* The descriptor table holds the chain head -> d1 -> d2 of thread t.
Chained(t) ==
    /\ Len(descs[t]) = 3
    /\ Cardinality(Chain(HeadOf(t))) = 3
    /\ "NEXT" \in desc[descs[t][1]].flags /\ desc[descs[t][1]].next = descs[t][2]
    /\ "NEXT" \in desc[descs[t][2]].flags /\ desc[descs[t][2]].next = descs[t][3]
    /\ "NEXT" \notin desc[descs[t][3]].flags

\* C1: whenever the driver lock is not held, free[i] is true exactly for the
\* descriptors that are on no chain of a live request.
C1_free_iff_unchained ==
    LockFree =>
        \A i \in Descs :
            free[i] <=> ~(\E t \in LiveReq : i \in Chain(HeadOf(t)))
\* Two requests are live and the lock is not held.
C1_witness == LockFree /\ Cardinality(LiveReq) = 2 /\ NumFree = NUM - 6

\* C2 as stated: whenever the lock is not held, every live request has three
\* chained descriptors, a non-null inflight buffer and that buffer's disk
\* flag is true.
C2_as_stated ==
    LockFree =>
        \A t \in LiveReq :
            /\ Chained(t)
            /\ inflight[HeadOf(t)].b # NullBuf
            /\ bufdisk[inflight[HeadOf(t)].b]
\* C2 amended: whenever the lock is not held, every live request has three
\* chained descriptors and its inflight entry points to the requester's
\* buffer; the buffer's disk flag is true until intr has consumed the
\* completion, and after that the status is 0 and the requester is awake.
C2_chain_inflight_disk ==
    LockFree =>
        \A t \in LiveReq :
            /\ Chained(t)
            /\ inflight[HeadOf(t)].b = t
            /\ \/ bufdisk[t]
               \/ inflight[HeadOf(t)].status = 0 /\ pc[t] = "woken_buf"
\* intr has completed a request that rw has not cleaned up, lock released.
C2_witness ==
    LockFree /\ \E t \in LiveReq : ~bufdisk[t] /\ inflight[HeadOf(t)].b = t

\* C3: whenever the lock is not held, inflight[h].b is non-null exactly for
\* the heads h of live requests; and rw has cleared inflight[head] when it
\* comes to free the descriptors.
C3_inflight_iff_outstanding ==
    /\ LockFree =>
          \A h \in Descs :
              inflight[h].b # NullBuf <=> \E t \in LiveReq : HeadOf(t) = h
    /\ \A t \in Threads : pc[t] = "free" => inflight[HeadOf(t)].b = NullBuf
\* rw has cleared the entry of head 0 while the request of head 3 is live.
C3_witness ==
    /\ \E t \in Threads : pc[t] = "free" /\ HeadOf(t) = 0
    /\ inflight[3].b # NullBuf

\* C4: a call of rw that finds fewer than three free descriptors frees what
\* it took, sleeps on the disk's channel holding no descriptor, retries when
\* woken and goes on only with three descriptors; it never returns without
\* serving the request, and every published request has its three chained
\* descriptors.
C4_state ==
    /\ \A t \in LiveReq :
          /\ Len(descs[t]) = 3
          /\ Cardinality({descs[t][k] : k \in 1..3}) = 3
          /\ \A k \in 1..3 : ~free[descs[t][k]]
    /\ \A t \in Published : Chained(t)
    /\ \A t \in Threads :
          pc[t] \in {"sleep_alloc", "woken_alloc"} => descs[t] = <<>>
C4_step ==
    \A t \in Threads :
        /\ pc[t] = "alloc" =>
              /\ pc'[t] \in {"alloc", "format", "sleep_alloc"}
              /\ pc'[t] = "sleep_alloc" =>
                    /\ Alloc(free) = NoDesc
                    /\ lock' = NoHolder
                    /\ \A i \in Descs : free'[i] <=> (free[i] \/ \E k \in 1..Len(descs[t]) : descs[t][k] = i)
              /\ pc'[t] = "format" => Len(descs'[t]) = 3
        /\ pc[t] = "sleep_alloc" => pc'[t] \in {"sleep_alloc", "woken_alloc"}
        /\ pc[t] = "woken_alloc" => pc'[t] \in {"woken_alloc", "alloc"}
        /\ (pc'[t] = "idle" /\ pc[t] # "idle") => pc[t] = "free"
C4_exhaustion_sleeps == [](C4_state) /\ [][C4_step]_vars
\* A thread sleeps for descriptors while fewer than three are free.
C4_witness == \E t \in Threads : pc[t] = "sleep_alloc" /\ NumFree < 3

\* C5: no thread is asleep on its buffer's channel after intr has cleared the
\* buffer's disk flag: rw goes to sleep there only while the flag is true, and
\* intr wakes the sleeper in the step that clears the flag.
C5_no_lost_wakeup ==
    \A t \in Threads : pc[t] = "sleep_buf" => bufdisk[t]
\* intr, still holding the lock, has cleared the flag and woken the sleeper.
C5_witness ==
    lock = IntrHolder /\ \E t \in Threads : pc[t] = "woken_buf" /\ ~bufdisk[t]

\* No thread can run, nothing is pending at the device or the interrupt.
AllAsleepNothingPending ==
    /\ \E t \in Threads : InRw(t)
    /\ \A t \in Threads : pc[t] \in {"idle", "sleep_alloc", "sleep_buf"}
    /\ LockFree
    /\ ~irq
    /\ devAvail = avail.idx
    /\ used_idx = used.id

\* C6: with more threads in rw than NUM/3, under fair scheduling and a device
\* that completes every request, every rw call returns, and the driver is
\* never in a state where all threads in rw are asleep with nothing pending.
C6_every_rw_returns ==
    /\ \A t \in Threads : InRw(t) ~> ~InRw(t)
    /\ [](~AllAsleepNothingPending)
\* NUM/3 requests wait for completion and one more thread sleeps for
\* descriptors.
C6_witness ==
    /\ Cardinality({t \in Threads : pc[t] = "sleep_buf"}) = NUM \div 3
    /\ \E t \in Threads : pc[t] = "sleep_alloc"

\* C7: from an idle driver, NUM/3 concurrent writes all complete, and once
\* all calls have returned every descriptor is free and used_idx has advanced
\* by the number of requests.
C7_concurrent_writes ==
    /\ [](Cardinality(LiveReq) = NUM \div 3 => <>AllIdle)
    /\ [](AllIdle =>
            /\ \A i \in Descs : free[i]
            /\ used_idx = (base + nreq) % U16
            /\ nCons = nreq)
\* Exactly NUM/3 writes were issued, they were live together (they used the
\* heads 0 and 3), and all have returned.
C7_witness ==
    /\ AllIdle
    /\ nreq = NUM \div 3
    /\ used_idx = (base + (NUM \div 3)) % U16
    /\ ops[0].typ = VIRTIO_BLK_T_OUT
    /\ ops[3].typ = VIRTIO_BLK_T_OUT

\* C8: the number of completions intr has consumed never exceeds the number
\* the device has published; used_idx and used.id are these counts modulo
\* 2^16.
C8_used_idx_bounded ==
    /\ nCons <= nPub
    /\ used_idx = (base + nCons) % U16
    /\ used.id = (base + nPub) % U16
\* intr is past the wrap of used_idx with a completion left to consume.
C8_witness ==
    /\ base = U16 - 1
    /\ lock = IntrHolder
    /\ nCons >= 1
    /\ nCons < nPub
    /\ used_idx < base

\* C9: every descriptor handle is owned by exactly one rw call from alloc
\* until it is passed to free: a descriptor is marked in use exactly when one
\* thread holds its handle, a thread that sleeps for descriptors or has
\* returned holds none, and the assertion of free never fails.
C9_handles_linear ==
    /\ \A i \in Descs :
          ~free[i] <=> \E t \in Threads : \E k \in 1..Len(descs[t]) :
                           descs[t][k] = i
    /\ \A t, u \in Threads :
          \A k \in 1..Len(descs[t]) : \A l \in 1..Len(descs[u]) :
              descs[t][k] = descs[u][l] => (t = u /\ k = l)
    /\ \A t \in Threads :
          pc[t] \in {"idle", "sleep_alloc", "woken_alloc"} => descs[t] = <<>>
    /\ panicked \notin {"Disk::free", "Descriptor must never drop"}
\* A thread that failed to allocate was woken by the wakeup of a finished
\* request: both the failure path and rw's cleanup have freed descriptors.
C9_witness ==
    /\ nSpur = 0
    /\ \E t \in Threads : pc[t] = "woken_alloc"
    /\ nCons >= 1

\* C10 as stated: intr clears a buffer's disk flag only when the status byte
\* of its request is 0; for any other byte it panics first.
C10_nonzero_status_panics ==
    \A t \in LiveReq :
        (pc[t] \in {"sleep_buf", "woken_buf", "wait", "clear"} /\ ~bufdisk[t])
            => inflight[HeadOf(t)].status = 0

\* C11: a read that follows a write of the same block returns the written
\* data in a valid buffer, whether it found the buffer valid (and then it
\* issued no disk request) or invalid (and then it went through rw, and the
\* buffer is valid afterwards).
C11_state ==
    \A t \in Threads :
        (got[t] # NoData /\ wrote[t] # NoData) =>
            (got[t] = wrote[t] /\ bvalid[t])
C11_step ==
    \A t \in Threads :
        (got'[t] # NoData /\ got[t] = NoData) =>
            /\ bvalid'[t]
            /\ bvalid[t] => (~inread[t] /\ nreq' = nreq /\ avail' = avail)
            /\ ~bvalid[t] => (inread[t] /\ ~wr[t] /\ bdata'[t] = bdata[t])
C11_write_then_read == [](C11_state) /\ [][C11_step]_vars
\* A read has returned the written data, two different sector values, from
\* the disk: the write and the read were the only two requests, so the
\* buffer was recycled in between.
C11_witness ==
    \E t \in Threads :
        /\ got[t] = wrote[t] /\ got[t] # NoData
        /\ got[t][1] # got[t][2]
        /\ blk[Blockno(t) * SectorsOf(BSIZE)] = got[t][1]
        /\ nreq = 2 /\ nCons = 2
        /\ \A u \in Threads : u # t => wrote[u] = NoData /\ ~bvalid[u]

\* ------------------------------------------- system calls: the claims
\* The system calls that open a log transaction themselves.
TxOps == {"link", "unlink", "open", "mkdir", "mknod", "chdir"}
\* The inode locks process p holds.
HeldLocks(p) == {i \in Inums : ilock[i] = p}
\* The inode locks process p is about to take with its next step.
Wants(p) ==
    IF proc[p].pc \in {"link_namei", "unlink_parent", "create_parent",
                       "open_namei", "chdir_namei"}
    THEN WalkLocks(inode, proc[p].cwd, proc[p].call.path)
    ELSE IF proc[p].pc = "link_parent"
    THEN WalkLocks(inode, proc[p].cwd, proc[p].call.new)
    ELSE IF proc[p].pc \in {"link_lock_dp", "unlink_lock_dp", "create_lock_dp"}
    THEN {proc[p].dp}
    ELSE IF proc[p].pc \in {"link_lock_ip", "link_undo", "unlink_lock_ip",
                            "create_lock_old", "create_lock_new",
                            "open_lock_ip", "chdir_lock_ip"}
    THEN {proc[p].ip}
    ELSE {}
\* Inode c is entered in directory d under a name other than "." and "..".
ChildOf(c, d) ==
    /\ inode[d].typ = T_DIR
    /\ \E k \in 1..Len(inode[d].ents) :
        inode[d].ents[k].inum = c /\ inode[d].ents[k].name \notin Dots
\* The references to inode i the kernel knows of: the working directories,
\* the open files, and those held by the calls in progress.
RECURSIVE HeldSum(_, _)
HeldSum(P, i) ==
    IF P = {} THEN 0
    ELSE LET p == CHOOSE q \in P : TRUE
         IN proc[p].held[i] + HeldSum(P \ {p}, i)
RefsTo(i) ==
    Cardinality({p \in Procs : proc[p].cwd = i})
    + Cardinality({f \in Files : ftable[f].ref >= 1
                                 /\ ftable[f].typ \in {FD_INODE, FD_DEVICE}
                                 /\ ftable[f].ip = i})
    + HeldSum(Procs, i)

\* C12: in link, unlink, open, mkdir, mknod and chdir end_op is never called
\* without a begin_op before it, a call that has begun a transaction has
\* ended it exactly once when it returns, and a step of such a call changes
\* an inode only inside the transaction.
C12_state ==
    \A p \in Procs :
        /\ proc[p].nend <= proc[p].nbegin
        /\ proc[p].nbegin <= 1
        /\ proc[p].intx <=> (proc[p].nbegin = proc[p].nend + 1)
        /\ proc[p].pc \in {"ret", "idle"} => proc[p].nbegin = proc[p].nend
        /\ (proc[p].pc \notin {"ret", "idle"} /\ proc[p].call.op \in TxOps)
              => proc[p].intx
C12_step ==
    \A p \in Procs :
        (proc'[p] # proc[p] /\ proc'[p].call.op \in TxOps /\ inode' # inode)
            => proc[p].intx
C12_begin_end == [](C12_state) /\ [][C12_step]_vars
\* One call has failed after it began its transaction and another call, of
\* another process, is inside its own.
C12_witness ==
    \E p \in Procs : \E q \in Procs :
        /\ proc[p].pc = "ret" /\ proc[p].call.op \in TxOps
        /\ proc[p].ret = -1
        /\ proc[p].nbegin = 1 /\ proc[p].nend = 1
        /\ proc[q].intx /\ HeldLocks(q) # {}

\* C13: a link, unlink, open, mkdir, mknod or chdir that returns -1 holds no
\* inode lock and none of the references it obtained; no reference is
\* released twice or lost: every inode's count is the number of references
\* the kernel knows of.
C13_released ==
    /\ \A p \in Procs :
        (proc[p].pc = "ret" /\ proc[p].ret = -1 /\ proc[p].call.op \in TxOps)
            => (HeldLocks(p) = {} /\ proc[p].held = NoHeld)
    /\ \A p \in Procs : \A i \in Inums : proc[p].held[i] >= 0
    /\ \A i \in Inums : iref[i] = RefsTo(i)
\* unlink has refused a directory that is not empty: it had locked and
\* referenced both the parent and the directory.
C13_witness ==
    \E p \in Procs :
        /\ proc[p].pc = "ret" /\ proc[p].ret = -1
        /\ proc[p].call.op = "unlink"
        /\ proc[p].call.path # BadStr
        /\ Last(proc[p].call.path) \notin Dots
        /\ LET i == Namei(inode, proc[p].cwd, proc[p].call.path) IN
            /\ i # NullInode
            /\ inode[i].typ = T_DIR
            /\ ~IsDirEmpty(inode, i)

\* C14: no call waits for the lock of a directory while it holds the lock of
\* an inode entered in it; unlink and the create of a new inode hold the
\* parent's lock when they lock the child; link holds no lock when it
\* resolves and locks the new name's parent; create's already-exists
\* shortcut has unlocked and released the parent when it locks the child;
\* and no set of calls waits for inode locks in a cycle.
C14_lock_order ==
    /\ \A p \in Procs : \A c \in HeldLocks(p) : \A d \in Wants(p) :
        ~ChildOf(c, d)
    /\ \A p \in Procs :
        proc[p].pc \in {"unlink_lock_ip", "create_lock_new"}
            => (ilock[proc[p].dp] = p /\ HeldLocks(p) = {proc[p].dp})
    /\ \A p \in Procs :
        proc[p].pc \in {"link_parent", "link_lock_dp", "link_undo"}
            => HeldLocks(p) = {}
    /\ \A p \in Procs :
        proc[p].pc = "create_lock_old"
            => (HeldLocks(p) = {}
                /\ proc[p].held = [NoHeld EXCEPT ![proc[p].ip] = 1])
    /\ \A D \in (SUBSET Procs) \ {{}} :
        \E p \in D : \A i \in Wants(p) : ilock[i] \notin D
\* unlink holds the parent's lock and is about to lock the child, while
\* another call waits for the parent's lock.
C14_witness ==
    \E p \in Procs : \E q \in Procs :
        /\ p # q
        /\ proc[p].pc = "unlink_lock_ip"
        /\ ilock[proc[p].dp] = p
        /\ ChildOf(proc[p].ip, proc[p].dp)
        /\ proc[q].pc = "create_lock_dp"
        /\ proc[q].dp = proc[p].dp

\* C15: every slot of every descriptor table is null or names a handle with
\* a reference count of at least 1.
C15_slots_live ==
    \A p \in Procs : \A fd \in Fds :
        proc[p].ofile[fd] # NullFile => ftable[proc[p].ofile[fd]].ref >= 1
\* pipe has failed part-way, for want of a second descriptor, and has closed
\* both of its handles; the slot in use before is still live.
C15_witness ==
    \E p \in Procs :
        /\ proc[p].pc = "ret" /\ proc[p].call.op = "pipe" /\ proc[p].ret = -1
        /\ proc[p].ofile[0] # NullFile
        /\ proc[p].ofile[1] = NullFile
        /\ Cardinality({f \in Files : ftable[f].ref = 0}) >= 2

\* C16: dup called with every descriptor slot in use returns -1 and leaves
\* the handles' reference counts and the descriptor table as they were.
C16_dup_full ==
    \A p \in Procs :
        (/\ proc[p].pc = "ret" /\ proc[p].call.op = "dup"
         /\ \A fd \in Fds : snap.pr.ofile[fd] # NullFile)
            => /\ proc[p].ret = -1
               /\ ftable = snap.ftable
               /\ proc[p].ofile = snap.pr.ofile
\* dup of a valid descriptor has returned from a full table.
C16_witness ==
    \E p \in Procs :
        /\ proc[p].pc = "ret" /\ proc[p].call.op = "dup"
        /\ proc[p].call.fd \in Fds
        /\ \A fd \in Fds : proc[p].ofile[fd] # NullFile
        /\ proc[p].ret = -1

\* C17: a link that returns -1 leaves every inode, and so the link count of
\* the old name's inode and the entries of every directory, as they were
\* before the call.
C17_link_fails_clean ==
    \A p \in Procs :
        (proc[p].pc = "ret" /\ proc[p].call.op = "link" /\ proc[p].ret = -1)
            => /\ \A i \in Inums : inode[i].nlink = snap.inode[i].nlink
               /\ \A i \in Inums : inode[i].ents = snap.inode[i].ents
               /\ inode = snap.inode
\* link has failed for a file it had already counted the new link of.
C17_witness ==
    \E p \in Procs :
        /\ proc[p].pc = "ret" /\ proc[p].call.op = "link" /\ proc[p].ret = -1
        /\ proc[p].call.path # BadStr /\ proc[p].call.new # BadStr
        /\ LET i == Namei(inode, proc[p].cwd, proc[p].call.path) IN
            i # NullInode /\ inode[i].typ = T_FILE

\* C18: after a successful link(A, B) followed by a successful unlink(B) the
\* inode of A exists, A still names it, and its link count is the one it
\* had before the link.
C18_link_unlink ==
    (prev.p # 0 /\ prev.stage = "unlinked") =>
        LET a == Namei(prev.inode, proc[prev.p].cwd, prev.old) IN
        /\ a # NullInode
        /\ inode[a].typ = prev.inode[a].typ
        /\ inode[a].typ # 0
        /\ Namei(inode, proc[prev.p].cwd, prev.old) = a
        /\ inode[a].nlink = prev.inode[a].nlink
\* The unlink of the new name has just returned 0.
C18_witness ==
    /\ prev.p # 0
    /\ prev.stage = "unlinked"
    /\ proc[prev.p].pc = "ret"
    /\ proc[prev.p].call.op = "unlink"
    /\ Namei(inode, proc[prev.p].cwd, prev.new) = NullInode

\* C19: an unlink whose path ends in "." or ".." never looks up or locks a
\* child, and returns -1 with every inode as before the call, the parent
\* unlocked and no reference kept.
C19_unlink_dots ==
    \A p \in Procs :
        (/\ proc[p].call.op = "unlink" /\ proc[p].call.path # BadStr
         /\ Last(proc[p].call.path) \in Dots)
            => /\ proc[p].pc # "unlink_lock_ip"
               /\ proc[p].ip = NullInode
               /\ proc[p].pc = "ret" =>
                    /\ proc[p].ret = -1
                    /\ inode = snap.inode
                    /\ iref = snap.iref
                    /\ HeldLocks(p) = {}
                    /\ proc[p].held = NoHeld
\* unlink of "." or ".." has returned after it had found and locked the
\* parent.
C19_witness ==
    \E p \in Procs :
        /\ proc[p].pc = "ret" /\ proc[p].call.op = "unlink"
        /\ proc[p].call.path # BadStr
        /\ Last(proc[p].call.path) \in Dots
        /\ NameiParent(inode, proc[p].cwd, proc[p].call.path) # NullInode
        /\ proc[p].nbegin = 1 /\ proc[p].nend = 1
        /\ proc[p].ret = -1

\* The directory an unlink in progress or just returned was called on, as
\* the call found it; null when the path named no directory.
UnlinkDir(p) ==
    IF proc[p].call.op # "unlink" \/ proc[p].call.path = BadStr
       \/ snap.p # p
    THEN NullInode
    ELSE LET d == NameiParent(snap.inode, snap.pr.cwd, proc[p].call.path)
             n == Last(proc[p].call.path)
         IN IF d = NullInode \/ n \in Dots THEN NullInode
            ELSE IF DirInum(snap.inode, d, n) = NullInode THEN NullInode
            ELSE IF snap.inode[DirInum(snap.inode, d, n)].typ # T_DIR
            THEN NullInode
            ELSE DirInum(snap.inode, d, n)

\* C20: unlink of a directory returns 0 exactly when every entry past the
\* first two has inum 0, and when it returns -1 every inode, and so the
\* parent's entry and both link counts, is as before the call.
C20_unlink_dir ==
    \A p \in Procs :
        (proc[p].pc = "ret" /\ UnlinkDir(p) # NullInode) =>
            LET i == UnlinkDir(p) IN
            /\ proc[p].ret \in {0, -1}
            /\ proc[p].ret = 0 <=>
                 \A k \in 3..Len(snap.inode[i].ents) :
                     snap.inode[i].ents[k].inum = 0
            /\ proc[p].ret = -1 => inode = snap.inode
            /\ proc[p].ret = 0 =>
                 Namei(inode, proc[p].cwd, proc[p].call.path) = NullInode
\* unlink has removed a directory whose only entry past ".." was the
\* tombstone of an unlinked file.
C20_witness ==
    \E p \in Procs :
        /\ proc[p].pc = "ret" /\ proc[p].ret = 0
        /\ UnlinkDir(p) # NullInode
        /\ Len(snap.inode[UnlinkDir(p)].ents) >= 3

\* Inode i is entered in no directory.
Unnamed(i) == \A d \in Inums : ~ChildOf(i, d)

\* C21: unlink never finds a child with nlink < 1, so its panic is never
\* reached, and whenever no transaction is open every inode has nlink >= 0.
C21_nlink ==
    /\ syspanic # "unlink: nlink < 1"
    /\ \A p \in Procs :
        (proc[p].pc = "unlink_lock_ip" /\ CanLock(proc[p].ip))
            => inode[proc[p].ip].nlink >= 1
    /\ (\A p \in Procs : ~proc[p].intx) => \A i \in Inums : inode[i].nlink >= 0
\* A link is about to take back its increment of nlink on a file that an
\* unlink, of another process, has meanwhile removed the only name of.
C21_witness ==
    \E p \in Procs : \E q \in Procs :
        /\ p # q
        /\ proc[q].pc = "link_undo"
        /\ inode[proc[q].ip].nlink = 1
        /\ Unnamed(proc[q].ip)
        /\ proc[p].pc = "ret" /\ proc[p].call.op = "unlink" /\ proc[p].ret = 0

\* C22 as stated: every directory with nlink > 0 has an entry "." for itself
\* and an entry ".." for its parent: the directory it is entered in, or
\* itself for the root.  create does not look at the link count of the
\* parent it has locked, so a mkdir that resolved its parent before an unlink
\* removed it gives the removed directory a link count again.
C22_dots ==
    \A i \in Inums :
        (inode[i].typ = T_DIR /\ inode[i].nlink > 0) =>
            /\ DirInum(inode, i, ".") = i
            /\ DirInum(inode, i, "..") # NullInode
            /\ IF i = ROOTINO THEN DirInum(inode, i, "..") = ROOTINO
               ELSE /\ ChildOf(i, DirInum(inode, i, ".."))
                    /\ \A d \in Inums :
                        ChildOf(i, d) => d = DirInum(inode, i, "..")

\* C23: a successful mkdir gives the new directory nlink 1 and adds 1 to the
\* parent's nlink; a successful unlink of a directory takes 1 from the
\* parent's nlink; after mkdir(P) and then unlink(P) the parent's nlink is
\* what it was before the mkdir.
C23_mkdir_nlink ==
    /\ \A p \in Procs :
        (proc[p].pc = "ret" /\ proc[p].call.op = "mkdir" /\ proc[p].ret = 0)
            => LET d == NameiParent(snap.inode, snap.pr.cwd, proc[p].call.path)
                   n == Namei(inode, proc[p].cwd, proc[p].call.path)
               IN /\ d # NullInode /\ n # NullInode
                  /\ snap.inode[n].typ = 0
                  /\ inode[n].typ = T_DIR
                  /\ inode[n].nlink = 1
                  /\ inode[d].nlink = snap.inode[d].nlink + 1
    /\ \A p \in Procs :
        (proc[p].pc = "ret" /\ proc[p].ret = 0 /\ UnlinkDir(p) # NullInode)
            => LET d == NameiParent(snap.inode, snap.pr.cwd, proc[p].call.path)
               IN inode[d].nlink = snap.inode[d].nlink - 1
    /\ (prev.p # 0 /\ prev.stage = "unmade")
            => LET d == NameiParent(prev.inode, proc[prev.p].cwd, prev.new)
               IN /\ inode[d].nlink = prev.inode[d].nlink
                  /\ Namei(inode, proc[prev.p].cwd, prev.new) = NullInode
\* The unlink of a directory has returned 0 right after the mkdir that made
\* it, in a directory other than the root.
C23_witness ==
    /\ prev.p # 0
    /\ prev.stage = "unmade"
    /\ proc[prev.p].pc = "ret"
    /\ proc[prev.p].call.op = "unlink"
    /\ NameiParent(inode, proc[prev.p].cwd, prev.new) # ROOTINO

\* The inode the path of the call in progress named when the call began.
NamedAtEntry(p) == Namei(snap.inode, snap.pr.cwd, proc[p].call.path)

\* C24: when open with O_CREATE calls create on a path that names a file,
\* create returns that inode, locked, the parent unlocked and released, no
\* inode allocated and no nlink and no directory entry changed; the same
\* holds when open returns, however many times the call is repeated.
C24_create_existing ==
    \A p \in Procs :
        (/\ proc[p].pc \in {"open_file", "ret"}
         /\ proc[p].call.op = "open" /\ "O_CREATE" \in proc[p].call.omode
         /\ proc[p].call.path # BadStr
         /\ NamedAtEntry(p) # NullInode
         /\ snap.inode[NamedAtEntry(p)].typ = T_FILE)
            => /\ inode = snap.inode
               /\ proc[p].pc = "open_file" =>
                    /\ proc[p].ip = NamedAtEntry(p)
                    /\ HeldLocks(p) = {proc[p].ip}
                    /\ proc[p].held = [NoHeld EXCEPT ![proc[p].ip] = 1]
                    /\ iref[proc[p].ip] = snap.iref[proc[p].ip] + 1
                    /\ \A i \in Inums : i # proc[p].ip => iref[i] = snap.iref[i]
               /\ (proc[p].pc = "ret" /\ proc[p].ret >= 0) =>
                    ftable[proc[p].ofile[proc[p].ret]].ip = NamedAtEntry(p)
\* create has returned the existing file for the second time in a row: both
\* descriptors of the process already name it.
C24_witness ==
    \E p \in Procs :
        /\ proc[p].pc = "open_file"
        /\ "O_CREATE" \in proc[p].call.omode
        /\ proc[p].ip = NamedAtEntry(p)
        /\ inode[proc[p].ip].typ = T_FILE
        /\ \A fd \in Fds :
            /\ proc[p].ofile[fd] # NullFile
            /\ ftable[proc[p].ofile[fd]].ip = proc[p].ip
        /\ proc[p].ofile[0] # proc[p].ofile[1]

\* C25: open of a path that names a directory, with a mode that holds any
\* flag, returns -1 with no handle and no descriptor allocated, no lock and
\* no reference kept, and its transaction ended.
C25_open_dir ==
    \A p \in Procs :
        (/\ proc[p].pc = "ret" /\ proc[p].call.op = "open"
         /\ proc[p].call.path # BadStr
         /\ NamedAtEntry(p) # NullInode
         /\ snap.inode[NamedAtEntry(p)].typ = T_DIR
         /\ proc[p].call.omode # O_RDONLY)
            => /\ proc[p].ret = -1
               /\ ftable = snap.ftable
               /\ proc[p].ofile = snap.pr.ofile
               /\ HeldLocks(p) = {}
               /\ proc[p].held = NoHeld
               /\ iref = snap.iref
               /\ inode = snap.inode
               /\ proc[p].nbegin = 1 /\ proc[p].nend = 1 /\ ~proc[p].intx
\* open for writing only has refused a directory other than the root while
\* a handle and a descriptor were free.
C25_witness ==
    \E p \in Procs :
        /\ proc[p].pc = "ret" /\ proc[p].call.op = "open"
        /\ proc[p].call.omode = {"O_WRONLY"}
        /\ proc[p].call.path # BadStr
        /\ NamedAtEntry(p) \notin {NullInode, ROOTINO}
        /\ inode[NamedAtEntry(p)].typ = T_DIR
        /\ proc[p].ret = -1
        /\ FileAlloc(ftable) # NullFile
        /\ FdAlloc(proc[p].ofile) >= 0

\* C26: a pipe call that fails after pipealloc gave it two handles leaves
\* the descriptor table as it was before the call and both handles closed,
\* each once: free again, and File::close never called on a free handle.
C26_pipe_fails_clean ==
    /\ syspanic # "File::close"
    /\ \A p \in Procs :
        (/\ proc[p].pc = "ret" /\ proc[p].call.op = "pipe"
         /\ proc[p].ret = -1
         /\ Cardinality({f \in Files : snap.ftable[f].ref = 0}) >= 2)
            => /\ proc[p].ofile = snap.pr.ofile
               /\ ftable = snap.ftable
               /\ iref = snap.iref
\* pipe has failed with two handles and two descriptors free: the copy of
\* the descriptors to the user's array failed.
C26_witness ==
    \E p \in Procs :
        /\ proc[p].pc = "ret" /\ proc[p].call.op = "pipe"
        /\ proc[p].ret = -1
        /\ \A fd \in Fds : snap.pr.ofile[fd] = NullFile
        /\ Cardinality({f \in Files : snap.ftable[f].ref = 0}) >= 2

\* C27: close of a valid descriptor clears its slot before the handle is
\* released and leaves every other slot as it was; the handle loses exactly
\* one reference; when it had more than one, the handle, its inode and the
\* other descriptors of it are as they were.
C27_close ==
    \A p \in Procs :
        (proc[p].call.op = "close" /\ proc[p].call.fd \in Fds
         /\ snap.pr.ofile[proc[p].call.fd] # NullFile) =>
            LET fd == proc[p].call.fd
                f == snap.pr.ofile[fd]
            IN /\ proc[p].pc \in {"close_file", "ret"}
               /\ proc[p].ofile = [snap.pr.ofile EXCEPT ![fd] = NullFile]
               /\ proc[p].pc = "close_file" =>
                      /\ ftable = snap.ftable
                      /\ iref = snap.iref
                      /\ proc[p].f = f
               /\ proc[p].pc = "ret" =>
                      /\ proc[p].ret = 0
                      /\ ftable[f].ref = snap.ftable[f].ref - 1
                      /\ \A g \in Files \ {f} : ftable[g] = snap.ftable[g]
                      /\ snap.ftable[f].ref > 1 =>
                             /\ ftable[f].typ = snap.ftable[f].typ
                             /\ ftable[f].ip = snap.ftable[f].ip
                             /\ iref = snap.iref
                             /\ inode = snap.inode
                             /\ \E g \in Fds : proc[p].ofile[g] = f
\* close has returned from a descriptor of an inode handle that another
\* descriptor shares.
C27_witness ==
    \E p \in Procs :
        /\ proc[p].pc = "ret" /\ proc[p].call.op = "close"
        /\ proc[p].ret = 0
        /\ proc[p].call.fd \in Fds
        /\ snap.pr.ofile[proc[p].call.fd] # NullFile
        /\ snap.ftable[snap.pr.ofile[proc[p].call.fd]].ref > 1
        /\ snap.ftable[snap.pr.ofile[proc[p].call.fd]].typ = FD_INODE

\* C28 as stated: every entry's neighbours point back at it, every node is
\* unlinked or on the ring of exactly one list, and a list is empty exactly
\* when no node is on its ring.
C28_rings ==
    /\ \A e \in alive :
           /\ list_entry[list_entry[e].next].prev = e
           /\ list_entry[list_entry[e].prev].next = e
    /\ \A n \in Nodes \cap alive :
           \/ list_entry[EntryOf(n)] = [prev |-> EntryOf(n), next |-> EntryOf(n)]
           \/ Cardinality({l \in Lists \cap alive :
                              EntryOf(n) \in Range(ListSeq(list_entry, l))}) = 1
    /\ \A l \in Lists \cap alive :
           IsEmpty(list_entry, l)
               <=> Range(ListSeq(list_entry, l)) \cap Nodes = {}

\* The node was never inserted, or removed and not inserted since.
Removed ==
    {"init", "pop_front", "pop_back", "remove", "remove_current", "drop"}
\* C29 as stated: the drop of a node panics exactly when the node is
\* linked; and a node that was initialised and never inserted, or that was
\* removed, by pop_front, pop_back, NodeMut::remove, remove_current or the
\* drop of its list, and not inserted since, is dropped without panic.
C29_drop ==
    [][\A n \in Nodes :
          (n \in alive /\ n \notin alive') =>
              /\ (lpanic' = NodeDropMsg)
                     <=> ~IsUnlinked(list_entry, EntryOf(n))
              /\ how[n] \in Removed => lpanic' = "none"]_vars

\* The sequence q without x, and q from its last element to its first.
Without(q, x) == SelectSeq(q, LAMBDA y : y # x)
Reverse(q) == [i \in 1..Len(q) |-> q[Len(q) + 1 - i]]
\* An iterator of a list that has not changed under it has yielded, by
\* next, the first nodes of the list in order and, by next_back, the last
\* ones in reverse order, no node twice; it returns None exactly when every
\* node has been yielded; and the list it walks after a remove_current is
\* the list as it was without the node removed, in the same order.
IterYields ==
    (iter # NoIter /\ ~iter.touched) =>
        LET b == iter.base
            k == Len(b)
            nf == Len(iter.fwd)
            nb == Len(iter.bwd)
        IN /\ b = ListSeq(list_entry, iter.list)
           /\ Range(b) \subseteq Nodes
           /\ nf + nb <= k
           /\ iter.fwd = SubSeq(b, 1, nf)
           /\ iter.bwd = SubSeq(Reverse(b), 1, nb)
           /\ iter.none => nf + nb = k
           /\ (iter.head = iter.tail) <=> (nf + nb = k)
           /\ (lastrm # NoRm /\ lastrm.list = iter.list) =>
                  b = Without(lastrm.before, lastrm.node)
\* push_back puts the node last in the list and push_front first, the other
\* nodes keeping their order.
PushOrder ==
    \A l \in Lists : \A n \in Nodes :
        /\ ListPushBack(l, n) =>
               ListSeq(list_entry', l)
                   = Append(Without(ListSeq(list_entry, l), n), n)
        /\ ListPushFront(l, n) =>
               ListSeq(list_entry', l)
                   = <<n>> \o Without(ListSeq(list_entry, l), n)
\* C30: forward iteration yields the nodes of the list from first to last,
\* reverse iteration from last to first, any interleaving of next and
\* next_back every node once and then None; after three pushes and
\* remove_current on the middle node the iteration yields the two others in
\* their order.
C30_iter == []IterYields /\ [][PushOrder]_vars
\* An iterator has returned None after next and next_back both yielded, on
\* a list of three nodes from whose middle remove_current took one.
C30_witness ==
    /\ iter # NoIter /\ ~iter.touched /\ iter.none
    /\ Len(iter.fwd) = 1 /\ Len(iter.bwd) = 1
    /\ lastrm # NoRm /\ lastrm.list = iter.list
    /\ Len(lastrm.before) = 3 /\ lastrm.node = lastrm.before[2]

\* Some other entry points at the entry of node n.
LinkedIn(n) ==
    \E e \in Entries \ {EntryOf(n)} :
        list_entry[e].next = EntryOf(n) \/ list_entry[e].prev = EntryOf(n)
InnerOf(n) == GetInner(list_entry, data, n)
InnerState ==
    \A n \in Nodes :
        /\ GetMutInner(list_entry, data, n) = InnerOf(n)
        /\ LinkedIn(n) => InnerOf(n) = NoneOpt
        /\ ~LinkedIn(n) => InnerOf(n) = Some(lastw[n])
InnerStep ==
    \A l \in Lists :
        /\ \A n \in Nodes :
               ListPushBack(l, n) \/ ListPushFront(l, n) =>
                   GetInner(list_entry', data', n) = NoneOpt
        /\ (ListPopBack(l) /\ ~IsEmpty(list_entry, l)) =>
               GetInner(list_entry', data', FromListEntry(list_entry[l].prev))
                   = Some(lastw[FromListEntry(list_entry[l].prev)])
        /\ (ListPopFront(l) /\ ~IsEmpty(list_entry, l)) =>
               GetInner(list_entry', data', FromListEntry(list_entry[l].next))
                   = Some(lastw[FromListEntry(list_entry[l].next)])
RingOk(E, l) ==
    LET q == ListSeq(E, l)
    IN /\ Range(q) \subseteq Nodes
       /\ \A i \in 1..Len(q) : \A j \in 1..Len(q) : q[i] = q[j] => i = j
       /\ E[IF q = <<>> THEN l ELSE q[Len(q)]].next = l
\* The step is push_back (back) or push_front of node n on list l.
PushSplices(l, n, back) ==
    LET E == list_entry
        E2 == list_entry'
        rest == Without(ListSeq(E, l), EntryOf(n))
    IN /\ ListSeq(E2, l) = IF back THEN Append(rest, EntryOf(n))
                           ELSE <<EntryOf(n)>> \o rest
       /\ \A k \in (Lists \cap alive) \ {l} :
              ListSeq(E2, k) = Without(ListSeq(E, k), EntryOf(n))
       /\ \A k \in Lists \cap alive : RingOk(E, k) => RingOk(E2, k)
       /\ E2 = IF back THEN EntryPushBack(E2, l, EntryOf(n))
               ELSE EntryPushFront(E2, l, EntryOf(n))
\* C32: push_back (push_front) of a node takes it off the list it is on,
\* the same or another, and makes it the back (front) of the list; the
\* other nodes of every list keep their order, no ring holds a node twice,
\* and the same push once more changes nothing.
C32_push ==
    [][\A l \in Lists : \A n \in Nodes :
          /\ ListPushBack(l, n) => PushSplices(l, n, TRUE)
          /\ ListPushFront(l, n) => PushSplices(l, n, FALSE)]_vars
\* The node a cursor of list 1 stands on is the back of list 2, behind
\* another node: it was pushed there from list 1.
C32_witness ==
    /\ cursor.head = 1
    /\ cursor.current \in Nodes
    /\ Len(ListSeq(list_entry, 2)) = 2
    /\ ListSeq(list_entry, 2)[2] = cursor.current
    /\ ListSeq(list_entry, 1) # <<>>
    /\ how[FromListEntry(cursor.current)] = "in"

\* The state of the driver that intr may touch.
IntrState == <<free, desc, inflight, bufdisk, used_idx, avail, descs, pc>>

\* One turn of intr's loop: the entry at used_idx is a completion the device
\* has published and intr has not consumed, the head of the chain of a
\* request whose buffer is still marked; the step clears that mark and no
\* other, leaves no thread asleep on that buffer, and advances used_idx by one.
IntrConsumes ==
    LET id == used.ring[used_idx % NUM]
        b == inflight[id].b
    IN  /\ used_idx # used.id
        /\ nCons < nPub
        /\ lock = IntrHolder
        /\ b # NullBuf
        /\ bufdisk[b]
        /\ descs[b] # <<>> /\ descs[b][1] = id
        /\ bufdisk' = [bufdisk EXCEPT ![b] = FALSE]
        /\ pc'[b] # "sleep_buf"
        /\ \A t \in Threads \ {b} : pc'[t] = pc[t]
        /\ used_idx' = (used_idx + 1) % U16
        /\ UNCHANGED <<free, desc, inflight, avail, descs>>

\* C33: intr consumes the used-ring entries from used_idx up to the count the
\* device has published, in ring order and each once: every entry names a
\* chain whose inflight buffer is non-null and still marked, the step clears
\* the mark, wakes the buffer's channel and adds one to used_idx; intr returns
\* only with used_idx equal to the published count, and entering and leaving
\* intr change no driver state.
C33_intr ==
    /\ [](panicked # "Disk::intr")
    /\ [][/\ used_idx' # used_idx => IntrConsumes
          /\ (bufdisk' # bufdisk /\ lock = IntrHolder) => used_idx' # used_idx
          /\ (lock = IntrHolder /\ lock' # IntrHolder) =>
                used_idx = used.id /\ UNCHANGED IntrState
          /\ (lock # IntrHolder /\ lock' = IntrHolder) =>
                UNCHANGED IntrState]_vars
\* One call of intr has consumed a completion and woken its thread, and the
\* next completion is waiting in the ring.
C33_witness ==
    /\ lock = IntrHolder
    /\ nCons = 1
    /\ nPub = 2
    /\ \E t \in Threads : pc[t] = "woken_buf" /\ ~bufdisk[t]
    /\ \E t \in Threads : pc[t] = "sleep_buf" /\ bufdisk[t]

\* The request of thread t is fully written: the three descriptors are
\* chained and name the header, the buffer and the status byte, the header is
\* set and the inflight entry of the head names the buffer.
FullyWritten(t) ==
    LET h == HeadOf(t) IN
    /\ Chained(t)
    /\ desc[h].addr = <<"ops", h>>
    /\ ops[h] = VirtIoBlockOutHeaderNew(wr[t], Blockno(t) * (BSIZE \div 512))
    /\ desc[descs[t][2]].addr = <<"data", t>>
    /\ desc[descs[t][3]].addr = <<"status", h>>
    /\ inflight[h].b = t
\* The avail-ring slots the device has yet to read: devAvail up to avail.idx.
AvailWindow ==
    {(devAvail + j) % U16 : j \in 0..(((avail.idx - devAvail) % U16) - 1)}
\* The threads that have not yet incremented avail.idx for their request.
Unpublished ==
    {t \in Threads : pc[t] \in {"alloc", "sleep_alloc", "woken_alloc",
                                "format", "ring", "publish"}}
\* Every slot avail.idx covers holds the head of a fully written request
\* that is its own, and avail.idx counts the requests published.
AvailCovered ==
    /\ \A k \in AvailWindow :
          \E t \in Published :
              /\ HeadOf(t) = avail.ring[k % NUM]
              /\ FullyWritten(t)
              /\ bufdisk[t]
    /\ \A k, m \in AvailWindow :
          avail.ring[k % NUM] = avail.ring[m % NUM] => k = m
    /\ avail.idx = (base + nreq - Cardinality(Unpublished)) % U16
\* The order of the writes of rw.
AvailOrder ==
    /\ avail.ring' # avail.ring =>
          /\ avail.idx' = avail.idx
          /\ \A s \in 0..(NUM - 1) :
                avail.ring'[s] # avail.ring[s] => s = avail.idx % NUM
    /\ avail.idx' # avail.idx =>
          /\ avail.idx' = (avail.idx + 1) % U16
          /\ avail.ring' = avail.ring
          /\ \E t \in Threads :
                /\ pc[t] = "publish" /\ pc'[t] = "notify"
                /\ avail.ring[avail.idx % NUM] = HeadOf(t)
                /\ FullyWritten(t)
                /\ UNCHANGED <<desc, ops, inflight, descs>>
    /\ (kicked' /\ ~kicked) =>
          \E t \in Threads :
              /\ pc[t] = "notify" /\ pc'[t] = "wait"
              /\ avail' = avail
              /\ avail.ring[((avail.idx + U16 - 1) % U16) % NUM] = HeadOf(t)

\* C34: rw writes the three descriptors, the inflight entry and the avail
\* ring slot of avail.idx before it increments avail.idx, increments it by
\* one once per request, and notifies the device only after that; every slot
\* between the device's position and avail.idx holds the head of a fully
\* written chain.
C34_publish == []AvailCovered /\ [][AvailOrder]_vars
\* The device is reading the ring, past the wrap of avail.idx, while a thread
\* has published a request and not yet notified.
C34_witness ==
    /\ kicked
    /\ devAvail # avail.idx
    /\ avail.idx < base
    /\ \E t \in Threads : pc[t] = "notify"

\* The indices a handle sequence names.
Taken(s) == {s[k] : k \in 1..Len(s)}
\* Thread t is inside alloc_three_descriptors; as it holds the lock, the free
\* array at the start of the call is the present one with the handles taken
\* so far still free.
AllocThreeStep(t) ==
    LET before == [i \in Descs |-> free[i] \/ i \in Taken(descs[t])]
        nfree == Cardinality({i \in Descs : before[i]})
    IN
    /\ (pc'[t] = "sleep_alloc") =>
          /\ nfree < 3
          /\ free' = before
          /\ descs'[t] = <<>>
    /\ (pc'[t] \in {"alloc", "format"}) =>
          \E i \in Descs :
              /\ free[i] /\ \A j \in Descs : free[j] => i <= j
              /\ free' = [free EXCEPT ![i] = FALSE]
              /\ descs'[t] = Append(descs[t], i)
    /\ (pc'[t] = "format") =>
          /\ nfree >= 3
          /\ Len(descs'[t]) = 3
          /\ Cardinality(Taken(descs'[t])) = 3
          /\ \A i \in Descs :
                free'[i] <=> (before[i] /\ i \notin Taken(descs'[t]))
          /\ \A i \in Descs :
                (before[i] /\ i \notin Taken(descs'[t])) =>
                    \A k \in 1..3 : descs'[t][k] < i
    /\ \A u \in Threads \ {t} : descs'[u] = descs[u]

\* C35: alloc_three_descriptors with fewer than three free descriptors
\* returns None and leaves the free array as it was at the call; with three
\* or more it returns three distinct indices, each the lowest free one when
\* it is taken, and marks exactly those non-free.
C35_alloc_three ==
    [][\A t \in Threads :
          (pc[t] = "alloc" /\ (pc'[t] # "alloc" \/ descs'[t] # descs[t]))
              => AllocThreeStep(t)]_vars
\* A call that took the last two descriptors has failed and given them back.
C35_witness ==
    /\ \E t \in Threads : pc[t] = "sleep_alloc" /\ descs[t] = <<>>
    /\ {i \in Descs : free[i]} = {NUM - 2, NUM - 1}
    /\ desc[NUM - 2] = VirtqDescZero

\* Process p, in link, has counted the new link of ip and found the new
\* name's parent dp; dirlink or the device test then fails.
LinkLateError(p) ==
    /\ proc[p].pc = "link_lock_dp"
    /\ proc'[p].pc = "link_undo"
\* The rest of that path: p came to the undo with a parent it had found.
LinkLateUndo(p) ==
    /\ proc[p].pc = "link_undo"
    /\ proc[p].dp # NullInode
    /\ proc'[p].pc = "ret"
\* dp is unlocked and released by unlockput; ip's reference is still held.
DpReleased(p) ==
    LET d == proc[p].dp
        i == proc[p].ip
    IN  /\ ilock'[d] # p
        /\ proc'[p].held[d] = 0
        /\ iref'[d] = iref[d] - 1
        /\ proc'[p].held[i] = 1
        /\ iref'[i] = iref[i]

\* C36 as stated: on the error path of link after the increment of nlink, dp
\* is unlocked and released, and the reference to ip is not put: the call
\* returns with ip's reference count as it was when the path was entered.
C36_as_stated ==
    [][\A p \in Procs :
          /\ LinkLateError(p) => DpReleased(p)
          /\ LinkLateUndo(p) =>
                /\ iref'[proc[p].ip] = iref[proc[p].ip]
                /\ proc'[p].held[proc[p].ip] = 1]_vars
\* C36 amended: on that path dp is unlocked and released by unlockput, and
\* the reference to ip is released too, by the unlockput that follows the
\* decrement of nlink: the call returns -1 holding no reference and no lock,
\* with ip's count as it was before the call.
C36_link_late_error ==
    [][\A p \in Procs :
          /\ LinkLateError(p) => DpReleased(p)
          /\ LinkLateUndo(p) =>
                LET i == proc[p].ip IN
                /\ iref'[i] = iref[i] - 1
                /\ iref'[i] = snap.iref[i]
                /\ proc'[p].held = NoHeld
                /\ ilock'[i] # p
                /\ inode'[i].nlink = inode[i].nlink - 1
                /\ proc'[p].ret = -1]_vars
\* link has returned -1 because the new name exists in its parent.
C36_witness ==
    \E p \in Procs :
        /\ proc[p].pc = "ret" /\ proc[p].call.op = "link" /\ proc[p].ret = -1
        /\ proc[p].call.path # BadStr /\ proc[p].call.new # BadStr
        /\ LET i == Namei(inode, proc[p].cwd, proc[p].call.path)
               d == NameiParent(inode, proc[p].cwd, proc[p].call.new)
           IN  /\ i # NullInode /\ inode[i].typ = T_FILE
               /\ d # NullInode
               /\ DirInum(inode, d, Last(proc[p].call.new)) # NullInode

FileLike == {T_FILE, T_DEVICE}
\* create has found the name in the parent and goes on with the inode it
\* names; `gives` says whether it is to return that inode.  Returned, the
\* inode is locked and referenced: open goes on to make its handle, mkdir
\* and mknod return 0.  Else create returns null, the caller returns -1 and
\* the inode is unlocked and released.
CreateExisting(p, gives) ==
    LET i == proc[p].ip IN
    IF gives
    THEN /\ inode' = inode
         /\ proc[p].call.op = "open" =>
               /\ proc'[p].pc = "open_file"
               /\ proc'[p].ip = i
               /\ ilock'[i] = p
               /\ proc'[p].held = [NoHeld EXCEPT ![i] = 1]
         /\ proc[p].call.op # "open" =>
               /\ proc'[p].pc = "ret"
               /\ proc'[p].ret = 0
    ELSE /\ inode' = inode
         /\ proc'[p].pc = "ret"
         /\ proc'[p].ret = -1
         /\ ilock'[i] # p
         /\ proc'[p].held = NoHeld
         /\ iref'[i] = iref[i] - 1

\* C37 as stated: on a name that exists, create returns the existing inode,
\* locked, whenever the requested type and the type of the inode are both
\* FILE or DEVICE, and null with the inode unlocked and released otherwise.
C37_as_stated ==
    [][\A p \in Procs :
          (proc[p].pc = "create_lock_old" /\ proc'[p].pc # "create_lock_old")
              => CreateExisting(p,
                    /\ CreateTyp(proc[p].call) \in FileLike
                    /\ inode[proc[p].ip].typ \in FileLike)]_vars
\* C37 amended: on a name that exists, create returns the existing inode,
\* locked, exactly when the requested type is FILE (the call is open with
\* O_CREATE) and the inode is a file or a device; in every other case, the
\* DEVICE request of mknod and the DIR request of mkdir among them, it
\* returns null with the inode unlocked and released.
C37_create_exists ==
    [][\A p \in Procs :
          (proc[p].pc = "create_lock_old" /\ proc'[p].pc # "create_lock_old")
              => CreateExisting(p,
                    /\ CreateTyp(proc[p].call) = T_FILE
                    /\ inode[proc[p].ip].typ \in FileLike)]_vars
\* mknod has returned -1 for a name that is a file or a device.
C37_witness ==
    \E p \in Procs :
        /\ proc[p].pc = "ret" /\ proc[p].call.op = "mknod" /\ proc[p].ret = -1
        /\ proc[p].call.path # BadStr
        /\ NamedAtEntry(p) # NullInode
        /\ snap.inode[NamedAtEntry(p)].typ \in FileLike
        /\ inode = snap.inode

\* No file handle is free, or process p has no free descriptor.
Exhausted(p) ==
    \/ \A f \in Files : ftable[f].ref >= 1
    \/ \A fd \in Fds : proc[p].ofile[fd] # NullFile
\* Process p, in open with inode ip locked, comes to the allocation of the
\* handle and the descriptor, and returns.
OpenAllocFails(p) ==
    /\ proc[p].call.op = "open"
    /\ proc[p].pc \in {"open_file", "open_lock_ip"}
    /\ proc'[p].pc = "ret"
    /\ Exhausted(p)
\* The failed open has released what it held.
OpenReleased(p) ==
    /\ proc'[p].ret = -1
    /\ \A f \in Files : ftable'[f].ref = ftable[f].ref
    /\ ilock'[proc[p].ip] # p
    /\ proc'[p].held = NoHeld
    /\ iref'[proc[p].ip] = snap.iref[proc[p].ip]
    /\ ~proc'[p].intx /\ proc'[p].nend = 1
    /\ proc'[p].ofile = snap.pr.ofile
\* A path that O_CREATE found missing is missing after the failed open.
OpenUncreated(p) ==
    ("O_CREATE" \in proc[p].call.omode /\ NamedAtEntry(p) = NullInode)
        => Namei(inode', proc'[p].cwd, proc[p].call.path) = NullInode

\* C38 as stated: an open that fails for want of a file handle or of a
\* descriptor returns -1 with the handle closed, the inode unlocked and
\* released, the transaction ended and the descriptor table unchanged, and a
\* path that O_CREATE did not find before the call does not exist after it.
C38_open_rollback ==
    [][\A p \in Procs :
          OpenAllocFails(p) => (OpenReleased(p) /\ OpenUncreated(p))]_vars

\* The pages of argv that sys_exec took are accounted for: none is freed
\* that was not taken, none is freed twice, and at the return each has been
\* freed once.
ScratchFreed ==
    /\ \A pg \in Pages : ex.kfreed[pg] <= 1
    /\ \A pg \in Pages : ex.kfreed[pg] >= 1 => pg \in ex.scratch
    /\ ex.pc = "ret" =>
          /\ ExecHolds = {}
          /\ Cardinality(ex.scratch) =
                Cardinality({pg \in Pages : ex.kfreed[pg] = 1})
\* The three failures of the argument copy return -1 and never reach the
\* loader; the other returns of the loop come after one call of the loader.
ExecReturns ==
    ex.pc = "ret" =>
        /\ ex.why \in {"fetchaddr", "fetchstr", "toomany"} =>
              (ex.ret = -1 /\ ex.loads = 0)
        /\ ex.why = "loader" => ex.loads = 1
        /\ ex.why \in {"args", "fetchaddr", "fetchstr", "toomany", "loader"}

\* C39: on every return of exec - the pointer of an argument cannot be
\* fetched, its string cannot be copied, no null within MAXARG pointers, the
\* loader fails, the loader succeeds - every scratch page the call took has
\* been freed exactly once; on the three failures of the argument copy exec
\* returns -1 without calling the loader.
C39_exec_pages == ScratchFreed /\ ExecReturns
\* exec has returned -1 for MAXARG arguments with no null after them, and has
\* freed a page for each.
C39_witness ==
    /\ ex.pc = "ret"
    /\ ex.why = "toomany"
    /\ Cardinality(ex.scratch) = MAXARG
    /\ \A pg \in ex.scratch : ex.kfreed[pg] = 1

\* The cursor stands on the ring of its list (on a node or on the sentinel),
\* the ring is well formed, and the step inserts node n: n is then on the
\* ring next to the cursor's position, on the side asked for, no node has
\* left the ring and the cursor's position is still on it.
InsertLinks(n, before) ==
    LET E == list_entry
        E2 == list_entry'
        l == cursor.head
        c == cursor.current
        q == ListSeq(E, l)
        q2 == ListSeq(E2, l)
    IN  (RingOk(E, l) /\ (c = l \/ c \in Range(q))) =>
            /\ EntryOf(n) \in Range(q2)
            /\ IF before
               THEN E2[EntryOf(n)].next = c /\ E2[c].prev = EntryOf(n)
               ELSE E2[EntryOf(n)].prev = c /\ E2[c].next = EntryOf(n)
            /\ Range(q) \subseteq Range(q2)
            /\ c = l \/ c \in Range(q2)

\* C40 as stated: after insert_before (insert_after) of a cursor, the node is
\* linked in the cursor's list just before (after) the cursor's position,
\* every node of the list is still in it and the position is still on the
\* ring of the list's sentinel, whatever node is passed: one linked in that
\* list already, and the node the cursor points at.
C40_insert ==
    [][\A n \in Nodes :
          /\ InsertBefore(n) => InsertLinks(n, TRUE)
          /\ InsertAfter(n) => InsertLinks(n, FALSE)]_vars

====
